---- MODULE Spec2Model ----
(***************************************************************************)
(* ELBIX AIDD: automatic distribution-line design.                         *)
(*                                                                         *)
(* The design pipeline of app/core: target selection, road graph, path     *)
(* search, conductor-crossing validation, new-pole allocation and cost     *)
(* ranking, and the response builders of DesignEngine.                     *)
(*                                                                         *)
(* Lengths are whole metres.  Every coordinate is an integer pair and the  *)
(* initial states only hold geometry whose distances are whole numbers,    *)
(* so calculate_distance is exact.  Heights are tenths of a metre.         *)
(***************************************************************************)
EXTENDS Integers, Sequences, FiniteSets, TLC

VARIABLES
    pc,             \* position in the stage sequence
    phase_code,     \* requested phase class, "1" or "3"
    consumer_coord, \* consumer coordinate
    data,           \* ProcessedData: poles, lines, roads, buildings
    selection_result, \* SelectionResult: targets, fast_track_target, message
    road_graph,     \* RoadGraph: nodes, edges, pole_node_ids
    paths,          \* PathfindingResult.paths
    allocations,    \* List[AllocationResult]
    cost_results,   \* List[CostResult], ranked
    response,       \* DesignResponse, or NoResponse
    exception,      \* exception that left the running stage, "" if none
    wfs_cache,      \* WFSCache._cache: key |-> feature list, or Miss
    cache_lock,     \* WFSCache._lock: its holder, or Free
    clearing,       \* a caller of clear_cache is inside WFSCache.clear
    pool_session,   \* WFSConnectionPool._session, or NoSession
    sessions,       \* the ClientSessions created so far, each "open"
    fetches,        \* the _fetch_features coroutines: position and locals
    requests,       \* the requests in DesignEngine.run: position, response
    role_cache,     \* _POLE_INTELLIGENCE_CACHE: pole id |-> [type, phase]
    processed,      \* per request, the input and the poles of its last process()
    pole_counter,   \* PoleAllocator.pole_counter of the request's allocator
    workers,        \* the allocate calls on the thread pool: position, locals
    completed,      \* the paths whose allocate call has returned, in that order
    unit,           \* the lengths of this behaviour are counted in 1/unit metre
    http,           \* POST /design per request: body, position, status code
    raw_data,       \* the dict of raw features handed to DataPreprocessor.process
    eps             \* what the EPS server answered in phase 8 of the request

\* the state of one design request
request_vars == <<pc, phase_code, consumer_coord, data, selection_result, road_graph,
                  paths, allocations, cost_results, response, exception>>

\* the state of the process, shared by all requests
fetch_vars == <<wfs_cache, cache_lock, clearing, pool_session,
                sessions, fetches, requests>>

enrich_vars == <<role_cache, processed>>

process_vars == <<fetch_vars, enrich_vars>>

\* the allocator of the request and its calls on the thread pool
parallel_vars == <<pole_counter, workers, completed>>

\* what surrounds the pipeline: the resolution of the geometry, the HTTP
\* layer, the raw features and the EPS server
boundary_vars == <<unit, http, raw_data, eps>>

vars == <<request_vars, process_vars, parallel_vars, boundary_vars>>

---------------------------------------------------------------------------
(* Settings (app/config.py) and class constants.                           *)

MAX_DISTANCE_LIMIT == 400
FAST_TRACK_DISTANCE == 50
POLE_INTERVAL == 40
FIRST_POLE_MAX_DISTANCE == 30
ROAD_ACCESS_DISTANCE == 100
ROAD_SNAP_DISTANCE == 10
SCORE_WEIGHT_POLE == 10000
SCORE_WEIGHT_DISTANCE == 1
SCORE_WEIGHT_TURN == 50
PHASE_SINGLE == "1"
PHASE_THREE == "3"
MIN_DISTANCE_TO_EXISTING_POLE == 15
merge_threshold == 10
COST_POLE == 500000
WEIGHT_DISTANCE == 1
\* _get_or_create_node(tolerance=1.0), and the 1.0 of _connect_point_to_road
NODE_TOLERANCE == 1
\* find_paths(max_paths=10)
MAX_PATHS == 10
\* height_diff >= 1.5, in tenths of a metre
MIN_HEIGHT_DIFF == 15
\* twice the tolerance of _is_endpoint_intersection (2.5 m)
ENDPOINT_TOLERANCE_X2 == 5
\* float('inf'): total_distance and total_weight of an unreachable PathResult
inf == 1000000

---------------------------------------------------------------------------
(* Geometry on integer coordinates.                                        *)

Abs(n) == IF n < 0 THEN -n ELSE n

Min(a, b) == IF a <= b THEN a ELSE b

Max(a, b) == IF a >= b THEN a ELSE b

SqDist(a, b) == (a[1] - b[1]) * (a[1] - b[1]) + (a[2] - b[2]) * (a[2] - b[2])

\* floor of the square root
ISqrt(n) == CHOOSE r \in 0..n : r * r <= n /\ (r + 1) * (r + 1) > n

\* the distance is a whole number of metres
ExactDistance(a, b) == ISqrt(SqDist(a, b)) * ISqrt(SqDist(a, b)) = SqDist(a, b)

\* utils/coordinate.py calculate_distance: sqrt(dx^2 + dy^2)
calculate_distance(a, b) == ISqrt(SqDist(a, b))

\* LineString(coords).length: the sum of the segment lengths
RECURSIVE LineLength(_)
LineLength(coords) ==
    IF Len(coords) < 2 THEN 0
    ELSE calculate_distance(coords[1], coords[2]) + LineLength(Tail(coords))

RECURSIVE GCD(_, _)
GCD(a, b) == IF b = 0 THEN a ELSE GCD(b, a % b)

\* the vector from p to q, cut down to its shortest integer multiple: the
\* angle between two vectors does not depend on their lengths
Direction(p, q) ==
    LET dx == q[1] - p[1]
        dy == q[2] - p[2]
        g == GCD(Abs(dx), Abs(dy))
    IN  IF g = 0 THEN <<0, 0>> ELSE <<dx \div g, dy \div g>>

\* utils/geometry.py calculate_angle(p1, p2, p3) < 150 degrees, p2 the vertex.
\* A zero-length arm makes the function return 0.0, which is below the
\* threshold.  Otherwise angle < 150 iff cos(angle) > -sqrt(3)/2, that is
\* dot >= 0 or 4 * dot^2 < 3 * |v1|^2 * |v2|^2.
AngleBelowThreshold(p1, p2, p3) ==
    LET v1 == Direction(p2, p1)
        v2 == Direction(p2, p3)
        dot == v1[1] * v2[1] + v1[2] * v2[2]
        m1 == v1[1] * v1[1] + v1[2] * v1[2]
        m2 == v2[1] * v2[1] + v2[2] * v2[2]
    IN  IF m1 = 0 \/ m2 = 0 THEN TRUE
        ELSE dot >= 0 \/ 4 * dot * dot < 3 * m1 * m2

---------------------------------------------------------------------------
(* ProcessedData (app/core/preprocessor.py).                               *)
(* A Pole is [id, coord, phase_code]; a Line is [id, coords, line_type,    *)
(* phase_code, voltage, start_pole_id, end_pole_id, is_obstacle,           *)
(* annotation], annotation being the set of the keywords the code looks    *)
(* for in properties["TEXT_GIS_ANNXN"] that occur in it; a Road is its     *)
(* coordinate list; a Building is the axis-parallel rectangle              *)
(* [xmin, ymin, xmax, ymax] of its polygon.                                *)

\* Optional[float] voltage = None
NoVoltage == 0

\* Optional[str] start_pole_id / end_pole_id = None
NoPole == 0

\* Line.is_high_voltage (the third accepted line_type is the Korean word
\* for high voltage)
LineIsHighVoltage(line) ==
    IF line.voltage # NoVoltage THEN line.voltage >= 1000
    ELSE line.line_type \in {"H", "HV"}

\* Pole.is_three_phase
PoleIsThreePhase(pole) == pole.phase_code = "3"

\* the ids in start_pole_id and end_pole_id of a line
LinePoleIds(line) == {line.start_pole_id, line.end_pole_id} \ {NoPole}

\* a < b for fractions <<numerator, denominator>> with positive denominators
RatLess(a, b) == a[1] * b[2] < b[1] * a[2]

\* the open interval of the parameters t at which p + t * d lies strictly
\* between lo and hi, as <<lower, upper>> fractions; p is strictly between
\* them when d = 0
AxisInterval(p, d, lo, hi) ==
    IF d > 0 THEN <<(<<lo - p, d>>), (<<hi - p, d>>)>>
    ELSE <<(<<p - hi, -d>>), (<<p - lo, -d>>)>>

\* LineString([start, end]).intersects(polygon) and not touches(polygon):
\* a point of the segment lies in the interior of the rectangle
SegmentEntersBuilding(start, end, b) ==
    LET dx == end[1] - start[1]
        dy == end[2] - start[2]
        ix == AxisInterval(start[1], dx, b.xmin, b.xmax)
        iy == AxisInterval(start[2], dy, b.ymin, b.ymax)
        lowers == {<<0, 1>>} \cup (IF dx # 0 THEN {ix[1]} ELSE {})
                             \cup (IF dy # 0 THEN {iy[1]} ELSE {})
        uppers == {<<1, 1>>} \cup (IF dx # 0 THEN {ix[2]} ELSE {})
                             \cup (IF dy # 0 THEN {iy[2]} ELSE {})
    IN  /\ dx = 0 => (b.xmin < start[1] /\ start[1] < b.xmax)
        /\ dy = 0 => (b.ymin < start[2] /\ start[2] < b.ymax)
        /\ \A l \in lowers : \A u \in uppers : RatLess(l, u)

---------------------------------------------------------------------------
(* Sorting as list.sort(key=...) does: stable, by tuples of integers.      *)

Last(s) == s[Len(s)]

Front(s) == SubSeq(s, 1, Len(s) - 1)

\* a < b for key tuples of the same length
RECURSIVE KeyLess(_, _)
KeyLess(a, b) ==
    IF a = <<>> THEN FALSE
    ELSE IF Head(a) # Head(b) THEN Head(a) < Head(b)
    ELSE KeyLess(Tail(a), Tail(b))

RECURSIVE InsertIndex(_, _, _)
InsertIndex(sorted, i, keys) ==
    IF sorted = <<>> THEN <<i>>
    ELSE IF ~KeyLess(keys[i], keys[Last(sorted)]) THEN Append(sorted, i)
    ELSE Append(InsertIndex(Front(sorted), i, keys), Last(sorted))

\* the indices 1..n in the order of their keys, equal keys in index order
RECURSIVE SortedIndices(_, _)
SortedIndices(n, keys) ==
    IF n = 0 THEN <<>> ELSE InsertIndex(SortedIndices(n - 1, keys), n, keys)

\* s sorted by keys, keys[i] being the key of s[i]
SortedByKey(s, keys) ==
    LET order == SortedIndices(Len(s), keys)
    IN  [k \in 1..Len(s) |-> s[order[k]]]

---------------------------------------------------------------------------
(* TargetSelector (app/core/target_selector.py).                           *)
(* A TargetPole is [pole, distance_to_consumer, is_fast_track,             *)
(* has_obstacle, priority].                                                *)

_analyze_pole_connections(lines, pole_id) ==
    LET connected == {i \in 1..Len(lines) : pole_id \in LinePoleIds(lines[i])}
        has_hv == \E i \in connected : LineIsHighVoltage(lines[i])
        has_lv == \E i \in connected : ~LineIsHighVoltage(lines[i])
    IN  [has_lv |-> has_lv,
         has_hv |-> has_hv,
         has_hv_3phase |-> \E i \in connected :
                              /\ LineIsHighVoltage(lines[i])
                              /\ lines[i].phase_code = PHASE_THREE,
         lv_only |-> has_lv /\ ~has_hv]

\* the loop of _get_single_phase_connectable_poles over self.poles
RECURSIVE SinglePhaseLoop(_, _, _)
SinglePhaseLoop(poles, lines, result_poles) ==
    IF poles = <<>> THEN result_poles
    ELSE LET pole == Head(poles)
             connected_pole_ids == UNION {LinePoleIds(lines[i]) : i \in 1..Len(lines)}
             lv_connected_pole_ids ==
                 UNION {LinePoleIds(lines[i]) :
                           i \in {j \in 1..Len(lines) : ~LineIsHighVoltage(lines[j])}}
         IN  IF pole.id \notin connected_pole_ids
                \/ \E k \in 1..Len(result_poles) : result_poles[k].id = pole.id
             THEN SinglePhaseLoop(Tail(poles), lines, result_poles)
             ELSE IF pole.id \in lv_connected_pole_ids
             THEN SinglePhaseLoop(Tail(poles), lines, <<pole>> \o result_poles)
             ELSE SinglePhaseLoop(Tail(poles), lines, Append(result_poles, pole))

_get_single_phase_connectable_poles(poles, lines) ==
    SinglePhaseLoop(poles, lines, <<>>)

\* the loop of _get_three_phase_connected_poles over self.poles
RECURSIVE ThreePhaseLoop(_, _, _)
ThreePhaseLoop(poles, lines, result_poles) ==
    IF poles = <<>> THEN result_poles
    ELSE LET pole == Head(poles)
             hv == {j \in 1..Len(lines) : LineIsHighVoltage(lines[j])}
             three_phase_hv_pole_ids ==
                 UNION {LinePoleIds(lines[i]) :
                           i \in {j \in hv : lines[j].phase_code = PHASE_THREE}}
             hv_connected_pole_ids == UNION {LinePoleIds(lines[i]) : i \in hv}
             lv_only_pole_ids ==
                 UNION {LinePoleIds(lines[i]) : i \in (1..Len(lines)) \ hv}
                 \ hv_connected_pole_ids
         IN  IF pole.id \notin hv_connected_pole_ids \/ pole.id \in lv_only_pole_ids
                \/ \E k \in 1..Len(result_poles) : result_poles[k].id = pole.id
             THEN ThreePhaseLoop(Tail(poles), lines, result_poles)
             ELSE IF pole.id \in three_phase_hv_pole_ids
             THEN ThreePhaseLoop(Tail(poles), lines, <<pole>> \o result_poles)
             ELSE ThreePhaseLoop(Tail(poles), lines, Append(result_poles, pole))

_get_three_phase_connected_poles(poles, lines) ==
    ThreePhaseLoop(poles, lines, <<>>)

\* phase matching that lets every pole with a conductor through
PhaseMatchingAnyConductor(poles, lines, phase) ==
    _get_single_phase_connectable_poles(poles, lines)

_phase_matching(poles, lines, phase) ==
    IF phase = PHASE_THREE THEN _get_three_phase_connected_poles(poles, lines)
    ELSE _get_single_phase_connectable_poles(poles, lines)

_check_obstacle(buildings, start, end) ==
    \E i \in 1..Len(buildings) : SegmentEntersBuilding(start, end, buildings[i])

\* Steps 3 and 4 of select for one pole within reach
TargetOf(pole, lines, buildings, consumer, phase) ==
    LET distance == calculate_distance(consumer, pole.coord)
        has_obstacle == /\ distance <= FAST_TRACK_DISTANCE
                        /\ _check_obstacle(buildings, consumer, pole.coord)
        is_fast_track == distance <= FAST_TRACK_DISTANCE /\ ~has_obstacle
        conn == _analyze_pole_connections(lines, pole.id)
        adjustment ==
            IF phase = PHASE_SINGLE
            THEN IF conn.has_lv THEN -100
                 ELSE IF conn.has_hv /\ ~conn.has_lv THEN 50 ELSE 0
            ELSE (IF conn.has_hv_3phase THEN -100
                  ELSE IF conn.has_hv THEN -50 ELSE 0)
                 + (IF PoleIsThreePhase(pole) THEN -20 ELSE 0)
    IN  [pole |-> pole,
         distance_to_consumer |-> distance,
         is_fast_track |-> is_fast_track,
         has_obstacle |-> has_obstacle,
         priority |-> IF is_fast_track THEN 0 ELSE distance + adjustment]

select(d, consumer, phase) ==
    LET matched_poles == _phase_matching(d.poles, d.lines, phase)
        within == SelectSeq(matched_poles,
                     LAMBDA pole : ~(calculate_distance(consumer, pole.coord)
                                         > MAX_DISTANCE_LIMIT))
        target_poles == [i \in 1..Len(within) |->
                            TargetOf(within[i], d.lines, d.buildings, consumer, phase)]
        sorted == SortedByKey(target_poles,
                     [i \in 1..Len(target_poles) |->
                         <<target_poles[i].priority,
                           target_poles[i].distance_to_consumer>>])
        fast_track_targets == SelectSeq(sorted, LAMBDA t : t.is_fast_track)
    IN  IF matched_poles = <<>>
        THEN [targets |-> <<>>, fast_track_target |-> <<>>,
              message |-> "no pole matches the phase"]
        ELSE IF target_poles = <<>>
        THEN [targets |-> <<>>, fast_track_target |-> <<>>,
              message |-> "no pole within 400m"]
        ELSE [targets |-> sorted,
              fast_track_target |-> SubSeq(fast_track_targets, 1,
                                           Min(1, Len(fast_track_targets))),
              message |-> "candidates selected"]

---------------------------------------------------------------------------
(* Values before a stage has run.                                          *)

EmptyData == [poles |-> <<>>, lines |-> <<>>, roads |-> <<>>, buildings |-> <<>>]

\* SelectionResult(targets=[]) with its defaults
NoSelection == [targets |-> <<>>, fast_track_target |-> <<>>, message |-> ""]

EmptyGraph == [nodes |-> {}, edges |-> {}, node_counter |-> 0, pole_node_ids |-> <<>>]

NoResponse == [status |-> "none", routes |-> <<>>, error_message |-> "",
               has_processing_time |-> FALSE]

---------------------------------------------------------------------------
(* WFSClient (app/core/wfs_client.py).                                     *)
(* A feature list is [layer, features]: the list object parsed from the    *)
(* server's answer for the layer; features is "some" or "none".  The fresh *)
(* empty list [] of _fetch_features is EmptyList.  A cache key is          *)
(* <<url, layer, rounded bbox>>, the string that generate_key hashes.      *)

BBOX_SIZE == 400

\* the lock is held by a fetch <<request, layer>>, by ClearCaller, or is Free
Free == <<0, "free">>

ClearCaller == <<0, "clear">>

\* cache.get found nothing: None
Miss == [layer |-> "", features |-> "miss"]

NoSession == 0

EmptyList == [layer |-> "", features |-> "none"]

\* round(c / 10) * 10: Python rounds a half to the even neighbour
RoundToTen(c) ==
    LET q == c \div 10
        r == c % 10
    IN  10 * (IF r < 5 THEN q
              ELSE IF r > 5 THEN q + 1
              ELSE IF q % 2 = 0 THEN q ELSE q + 1)

\* calculate_bbox(center_x, 0, BBOX_SIZE)
calculate_bbox(center_x) ==
    <<center_x - BBOX_SIZE \div 2, 0 - BBOX_SIZE \div 2,
      center_x + BBOX_SIZE \div 2, 0 + BBOX_SIZE \div 2>>

\* get_poles and get_lines ask the GIS server, get_roads the BASE server
UrlOf(layer) == IF layer \in {"pole", "line", "transformer"} THEN "gis" ELSE "base"

generate_key(url, bbox, layer) ==
    <<url, layer, [i \in 1..4 |-> RoundToTen(bbox[i])]>>

\* a lock that everybody may take at any time
CanAcquireAlways(lock) == TRUE

\* with self._lock: the caller waits until the lock is free
CanAcquire(lock) == lock = Free

\* a pool that opens one session per fetch
GetSessionPerFetch(session, created) ==
    [session |-> Len(created) + 1, sessions |-> Append(created, "open")]

\* WFSConnectionPool.get_session: the shared session, opened when there is
\* none or when it is closed; no suspension point lies between the test
\* and the assignment
get_session(session, created) ==
    IF session = NoSession \/ created[session] = "closed"
    THEN [session |-> Len(created) + 1, sessions |-> Append(created, "open")]
    ELSE [session |-> session, sessions |-> created]

\* a _fetch_features that stores the empty list of a body that is not JSON
ParseBodyStoringAll(body, layer) ==
    IF body = "features"
    THEN [result |-> [layer |-> layer, features |-> "some"], store |-> TRUE]
    ELSE [result |-> [layer |-> layer, features |-> "none"], store |-> TRUE]

\* _fetch_features after response.text(): what it hands back for the body
\* the server sent, and whether it stores it
ParseBody(body, layer) ==
    IF body = "features"
    THEN [result |-> [layer |-> layer, features |-> "some"], store |-> TRUE]
    ELSE IF body = "no_features"
    THEN [result |-> [layer |-> layer, features |-> "none"], store |-> TRUE]
    ELSE [result |-> EmptyList, store |-> FALSE]

\* most requests in flight
MaxRequests == 2

\* most sessions the pool opens
MaxSessions == 2

\* the layers of get_all_data that are modelled: one per server.  The
\* fetches of the other layers run the same code.
Layers == {"pole", "road"}

\* one _fetch_features coroutine per request and layer
Tasks == (1..MaxRequests) \X Layers

IdleFetch == [pc |-> "idle", key |-> <<>>, center |-> 0, session |-> NoSession,
              body |-> "", result |-> EmptyList]

IdleRequest == [pc |-> "idle", center |-> 0, status |-> "none"]

\* no POST /design has arrived for the request
IdleHttp == [pc |-> "idle", coord |-> <<>>, phase_code |-> "", status_code |-> 0]

\* get_all_data has not returned: no dict yet
NoRawData == <<>>

\* phase 8 has not asked the EPS server
NotAsked == [health |-> "not asked", feeder |-> <<>>]

\* no process() has returned for the request
NotProcessed == [input |-> [poles |-> {}, lines |-> {}], poles |-> <<>>]

\* the process after start-up: _wfs_cache = WFSCache(), no session yet,
\* and a request before its PoleAllocator() has been called
ProcessStart ==
    /\ wfs_cache = <<>>
    /\ cache_lock = Free
    /\ clearing = FALSE
    /\ pool_session = NoSession
    /\ sessions = <<>>
    /\ fetches = [t \in Tasks |-> IdleFetch]
    /\ requests = [r \in 1..MaxRequests |-> IdleRequest]
    /\ role_cache = <<>>
    /\ processed = [r \in 1..MaxRequests |-> NotProcessed]
    /\ pole_counter = 0
    /\ workers = <<>>
    /\ completed = <<>>
    /\ http = [r \in 1..MaxRequests |-> IdleHttp]
    /\ raw_data = NoRawData
    /\ eps = NotAsked

---------------------------------------------------------------------------
(* RoadGraphBuilder (app/core/graph_builder.py).                           *)
(* A RoadGraph is [nodes, edges, node_counter, pole_node_ids]: a node is   *)
(* [id, coord, node_type], an edge of the undirected nx.Graph is           *)
(* [ends, distance, weight, edge_type], ends being the set of its two node *)
(* ids.  Road and junction nodes carry the ids N1, N2, ... of              *)
(* node_counter; they are the nodes the spatial index holds.  Coordinates  *)
(* and distances are counted in 1/unit metre, and so are the weights,      *)
(* which are proportional to the distance; the distances of the settings   *)
(* are metres.                                                             *)

N(k) == [t |-> "N", k |-> k]

CONSUMER == [t |-> "CONSUMER", k |-> 0]

POLE(pole_id) == [t |-> "POLE", k |-> pole_id]

\* self.nodes[node_id].coord
NodeCoord(g, node_id) == (CHOOSE n \in g.nodes : n.id = node_id).coord

_calculate_weight(distance) ==
    distance * WEIGHT_DISTANCE + (distance * COST_POLE) \div (POLE_INTERVAL * 100)

\* graph.add_node: a node that exists keeps its place, its attributes are
\* replaced
add_node(g, node_id, coord, node_type) ==
    [g EXCEPT !.nodes = {n \in g.nodes : n.id # node_id}
                        \cup {[id |-> node_id, coord |-> coord, node_type |-> node_type]}]

\* graph.add_edge: an edge between the same two nodes is replaced
add_edge(g, u, v, distance, edge_type) ==
    [g EXCEPT !.edges = {e \in g.edges : e.ends # {u, v}}
                        \cup {[ends |-> {u, v}, distance |-> distance,
                               weight |-> _calculate_weight(distance),
                               edge_type |-> edge_type]}]

\* SpatialIndex.find_nearest: the indexed node nearest to coord if it is
\* closer than tolerance, as a set of at most one node id
find_nearest(g, coord, tolerance) ==
    LET near == {n \in g.nodes :
                    /\ n.id.t = "N"
                    /\ SqDist(coord, n.coord) < tolerance * tolerance}
    IN  IF near = {} THEN {}
        ELSE {(CHOOSE n \in near :
                  \A m \in near : SqDist(coord, n.coord) <= SqDist(coord, m.coord)).id}

\* returns the graph and the id of the node found or created
_get_or_create_node(g, coord, node_type) ==
    LET existing == find_nearest(g, coord, NODE_TOLERANCE * unit)
        node_id == N(g.node_counter + 1)
    IN  IF existing # {} THEN [graph |-> g, id |-> CHOOSE i \in existing : TRUE]
        ELSE [graph |-> [add_node(g, node_id, coord, node_type)
                            EXCEPT !.node_counter = g.node_counter + 1],
              id |-> node_id]

\* the segments i, i + 1, ... of one road
RECURSIVE RoadSegments(_, _, _)
RoadSegments(g, coords, i) ==
    IF i > Len(coords) - 1 THEN g
    ELSE LET s == _get_or_create_node(g, coords[i], "road")
             e == _get_or_create_node(s.graph, coords[i + 1], "road")
         IN  RoadSegments(add_edge(e.graph, s.id, e.id,
                                   calculate_distance(coords[i], coords[i + 1]), "road"),
                          coords, i + 1)

RECURSIVE _build_road_graph(_, _)
_build_road_graph(g, roads) ==
    IF roads = <<>> THEN g
    ELSE _build_road_graph(IF Len(Head(roads)) < 2 THEN g
                           ELSE RoadSegments(g, Head(roads), 1),
                           Tail(roads))

\* graph.degree(node_id): a self-loop counts twice
Degree(g, node_id) ==
    Cardinality({e \in g.edges : node_id \in e.ends})
    + Cardinality({e \in g.edges : e.ends = {node_id}})

RECURSIVE AddSnapEdges(_, _)
AddSnapEdges(g, pairs) ==
    IF pairs = {} THEN g
    ELSE LET pair == CHOOSE p \in pairs : TRUE
             u == CHOOSE n \in pair : TRUE
             v == CHOOSE n \in pair : n # u
         IN  AddSnapEdges(add_edge(g, u, v,
                                   calculate_distance(NodeCoord(g, u), NodeCoord(g, v)),
                                   "snap"),
                          pairs \ {pair})

\* every two end nodes (degree 1) within snap_distance get a snap edge
_snap_disconnected_roads(g) ==
    LET end_nodes == {n.id : n \in {m \in g.nodes : Degree(g, m.id) = 1}}
        pairs == {{u, v} : u \in end_nodes, v \in end_nodes}
    IN  AddSnapEdges(g, {p \in pairs :
                            /\ Cardinality(p) = 2
                            /\ \A u \in p : \A v \in p :
                                   SqDist(NodeCoord(g, u), NodeCoord(g, v))
                                       <= (ROAD_SNAP_DISTANCE * unit)
                                          * (ROAD_SNAP_DISTANCE * unit)})

\* shapely nearest_points(point, LineString([a, b]))[1]: the foot of the
\* perpendicular from p, or the nearer end of the segment
NearestOnSegment(p, a, b) ==
    LET den == SqDist(a, b)
        num == (p[1] - a[1]) * (b[1] - a[1]) + (p[2] - a[2]) * (b[2] - a[2])
    IN  IF den = 0 \/ num <= 0 THEN a
        ELSE IF num >= den THEN b
        ELSE <<a[1] + ((b[1] - a[1]) * num) \div den,
               a[2] + ((b[2] - a[2]) * num) \div den>>

\* the point of the road or snap edge e nearest to p
NearestOnEdge(g, e, p) ==
    LET u == CHOOSE n \in e.ends : TRUE
        v == CHOOSE n \in e.ends : e.ends = {u, n}
    IN  NearestOnSegment(p, NodeCoord(g, u), NodeCoord(g, v))

\* the two road edges that replace the edge split at road_node
SplitEdge(g, road_node_id, ends) ==
    LET u == CHOOSE n \in ends : TRUE
        gu == add_edge(g, road_node_id, u,
                       calculate_distance(NodeCoord(g, road_node_id), NodeCoord(g, u)),
                       "road")
    IN  IF ends = {u} THEN gu
        ELSE LET v == CHOOSE n \in ends : n # u
             IN  add_edge(gu, road_node_id, v,
                          calculate_distance(NodeCoord(g, road_node_id), NodeCoord(g, v)),
                          "road")

\* returns the graph and whether the point got connected.  Two edges are
\* equally near only where they share a node, and then either choice
\* connects the point to that node.
_connect_point_to_road(g, point_coord, point_node_id) ==
    LET road_edges == {e \in g.edges : e.edge_type \in {"road", "snap"}}
        nearest_edge ==
            CHOOSE e \in road_edges :
                \A f \in road_edges :
                    SqDist(point_coord, NearestOnEdge(g, e, point_coord))
                        <= SqDist(point_coord, NearestOnEdge(g, f, point_coord))
        nearest_point_on_road == NearestOnEdge(g, nearest_edge, point_coord)
        min_distance == calculate_distance(point_coord, nearest_point_on_road)
        close == {n \in nearest_edge.ends :
                     SqDist(nearest_point_on_road, NodeCoord(g, n))
                         < (NODE_TOLERANCE * unit) * (NODE_TOLERANCE * unit)}
        road_node == _get_or_create_node(g, nearest_point_on_road, "junction")
        g1 == add_edge(road_node.graph, point_node_id, road_node.id,
                       min_distance, "connection")
        g2 == [g1 EXCEPT !.edges = {e \in g1.edges : e.ends # nearest_edge.ends}]
    IN  IF road_edges = {} THEN [graph |-> g, connected |-> FALSE]
        ELSE IF SqDist(point_coord, nearest_point_on_road)
                    > (ROAD_ACCESS_DISTANCE * unit) * (ROAD_ACCESS_DISTANCE * unit)
        THEN [graph |-> g, connected |-> FALSE]
        ELSE IF close # {}
        THEN [graph |-> add_edge(g, point_node_id, CHOOSE n \in close : TRUE,
                                 min_distance, "connection"),
              connected |-> TRUE]
        ELSE [graph |-> SplitEdge(g2, road_node.id, nearest_edge.ends),
              connected |-> TRUE]

\* the consumer connected to the nearest road node, however far
AddConsumerNodeAnywhere(g, consumer) ==
    LET g0 == add_node(g, CONSUMER, consumer, "consumer")
        road_nodes == {n \in g.nodes : n.id.t = "N"}
        nearest == CHOOSE n \in road_nodes :
                       \A m \in road_nodes :
                           SqDist(consumer, n.coord) <= SqDist(consumer, m.coord)
    IN  IF road_nodes = {} THEN g0
        ELSE add_edge(g0, CONSUMER, nearest.id,
                      calculate_distance(consumer, nearest.coord), "connection")

_add_consumer_node(g, consumer) ==
    _connect_point_to_road(add_node(g, CONSUMER, consumer, "consumer"),
                           consumer, CONSUMER).graph

\* every pole connected to the nearest road node, however far
AddPoleNodesAnywhere(g, target_poles) ==
    LET road_nodes == {n \in g.nodes : n.id.t = "N"}
        nearest(c) == CHOOSE n \in road_nodes :
                          \A m \in road_nodes : SqDist(c, n.coord) <= SqDist(c, m.coord)
        poles == {target_poles[i].pole : i \in 1..Len(target_poles)}
    IN  IF road_nodes = {} THEN g
        ELSE [g EXCEPT
                 !.nodes = @ \cup {[id |-> POLE(p.id), coord |-> p.coord,
                                    node_type |-> "pole"] : p \in poles},
                 !.edges = @ \cup {[ends |-> {POLE(p.id), nearest(p.coord).id},
                                    distance |-> calculate_distance(p.coord,
                                                                    nearest(p.coord).coord),
                                    weight |-> _calculate_weight(
                                                   calculate_distance(p.coord,
                                                                      nearest(p.coord).coord)),
                                    edge_type |-> "connection"] : p \in poles},
                 !.pole_node_ids = [i \in 1..Len(target_poles) |->
                                       POLE(target_poles[i].pole.id)]]

RECURSIVE _add_pole_nodes(_, _)
_add_pole_nodes(g, target_poles) ==
    IF target_poles = <<>> THEN g
    ELSE LET target == Head(target_poles)
             pole_id == POLE(target.pole.id)
             c == _connect_point_to_road(add_node(g, pole_id, target.pole.coord, "pole"),
                                         target.pole.coord, pole_id)
         IN  _add_pole_nodes(IF c.connected
                             THEN [c.graph EXCEPT !.pole_node_ids = Append(@, pole_id)]
                             ELSE g,
                             Tail(target_poles))

build(roads, consumer, target_poles) ==
    _add_pole_nodes(
        _add_consumer_node(_snap_disconnected_roads(_build_road_graph(EmptyGraph, roads)),
                           consumer),
        target_poles)

---------------------------------------------------------------------------
(* Pathfinder (app/core/pathfinder.py).                                    *)
(* A PathResult is [target_pole_id, target_coord, path_coords,             *)
(* total_distance, total_weight, is_reachable, is_fast_track]; path_nodes  *)
(* and target_node_id are not modelled.                                    *)

\* PathResult of _astar_path for a target without a path within reach
UnreachablePath(pole_id, coord) ==
    [target_pole_id |-> pole_id, target_coord |-> coord,
     path_coords |-> <<>>, total_distance |-> inf, total_weight |-> inf,
     is_reachable |-> FALSE, is_fast_track |-> FALSE]

Range(s) == {s[i] : i \in 1..Len(s)}

Neighbours(g, node_id) ==
    UNION {e.ends \ {node_id} : e \in {f \in g.edges : node_id \in f.ends}}

\* the simple paths that continue path_nodes to target
RECURSIVE SimplePaths(_, _, _)
SimplePaths(g, path_nodes, target) ==
    IF Last(path_nodes) = target THEN {path_nodes}
    ELSE UNION {SimplePaths(g, Append(path_nodes, n), target) :
                   n \in Neighbours(g, Last(path_nodes)) \ Range(path_nodes)}

\* graph.get_edge_data(u, v)
EdgeData(g, u, v) == CHOOSE e \in g.edges : e.ends = {u, v}

\* the sum of the edge attribute ("distance" or "weight") along path_nodes
RECURSIVE PathSum(_, _, _)
PathSum(g, path_nodes, attribute) ==
    IF Len(path_nodes) < 2 THEN 0
    ELSE EdgeData(g, path_nodes[1], path_nodes[2])[attribute]
         + PathSum(g, Tail(path_nodes), attribute)

\* nx.astar_path(graph, source, target, heuristic, weight='weight'): with
\* the admissible Euclidean heuristic a path of least weight, as a set of
\* at most one node list (empty: NetworkXNoPath).  The road networks of
\* the initial states have one lightest path per target.
astar_path(g, source, target) ==
    LET candidates == IF \E n \in g.nodes : n.id = source
                      THEN SimplePaths(g, <<source>>, target) ELSE {}
    IN  IF candidates = {} THEN {}
        ELSE {CHOOSE p \in candidates :
                 \A q \in candidates : PathSum(g, p, "weight") <= PathSum(g, q, "weight")}

\* _astar_path without the early exit at max_distance
AstarPathWithoutLimit(g, source, target, target_pole, max_distance) ==
    LET found == astar_path(g, source, target)
        path_nodes == CHOOSE p \in found : TRUE
    IN  IF found = {} THEN UnreachablePath(target_pole.pole.id, target_pole.pole.coord)
        ELSE [target_pole_id |-> target_pole.pole.id,
              target_coord |-> target_pole.pole.coord,
              path_coords |-> [i \in 1..Len(path_nodes) |-> NodeCoord(g, path_nodes[i])],
              total_distance |-> PathSum(g, path_nodes, "distance"),
              total_weight |-> PathSum(g, path_nodes, "weight"),
              is_reachable |-> TRUE, is_fast_track |-> FALSE]

\* the distances accumulated along the path never decrease, so the early
\* exit is taken exactly when their total exceeds max_distance
_astar_path(g, source, target, target_pole, max_distance) ==
    LET found == astar_path(g, source, target)
        path_nodes == CHOOSE p \in found : TRUE
    IN  IF found = {} THEN UnreachablePath(target_pole.pole.id, target_pole.pole.coord)
        ELSE IF PathSum(g, path_nodes, "distance") > max_distance
        THEN UnreachablePath(target_pole.pole.id, target_pole.pole.coord)
        ELSE [target_pole_id |-> target_pole.pole.id,
              target_coord |-> target_pole.pole.coord,
              path_coords |-> [i \in 1..Len(path_nodes) |-> NodeCoord(g, path_nodes[i])],
              total_distance |-> PathSum(g, path_nodes, "distance"),
              total_weight |-> PathSum(g, path_nodes, "weight"),
              is_reachable |-> TRUE, is_fast_track |-> FALSE]

\* the Fast-Track path of find_paths: straight from the consumer to the pole
FastTrackPath(consumer, target) ==
    [target_pole_id |-> target.pole.id, target_coord |-> target.pole.coord,
     path_coords |-> <<consumer, target.pole.coord>>,
     total_distance |-> target.distance_to_consumer,
     total_weight |-> target.distance_to_consumer,
     is_reachable |-> TRUE, is_fast_track |-> TRUE]

\* the loop of find_paths over the targets sorted by straight distance
RECURSIVE RoutedPaths(_, _)
RoutedPaths(g, sorted_targets) ==
    IF sorted_targets = <<>> THEN <<>>
    ELSE LET target == Head(sorted_targets)
             pole_node_id == POLE(target.pole.id)
             path_result == _astar_path(g, CONSUMER, pole_node_id, target,
                                        MAX_DISTANCE_LIMIT)
             rest == RoutedPaths(g, Tail(sorted_targets))
         IN  IF ~\E n \in g.nodes : n.id = pole_node_id THEN rest
             ELSE IF path_result.is_reachable
                     /\ path_result.total_distance <= MAX_DISTANCE_LIMIT
             THEN <<path_result>> \o rest
             ELSE rest

find_paths(g, target_poles, max_paths) ==
    LET fast_track_targets == SelectSeq(target_poles, LAMBDA t : t.is_fast_track)
        slow == SelectSeq(target_poles, LAMBDA t : ~t.is_fast_track)
        sorted_targets == SortedByKey(slow, [i \in 1..Len(slow) |->
                                                <<slow[i].distance_to_consumer>>])
        found == (IF fast_track_targets = <<>> THEN <<>>
                  ELSE <<FastTrackPath(NodeCoord(g, CONSUMER), fast_track_targets[1])>>)
                 \o RoutedPaths(g, sorted_targets)
        sorted == SortedByKey(found, [i \in 1..Len(found) |-> <<found[i].total_weight>>])
    IN  SubSeq(sorted, 1, Min(max_paths, Len(sorted)))

---------------------------------------------------------------------------
(* LineValidator (app/core/line_validator.py).                             *)
(* Heights are tenths of a metre.  A point of intersection is the triple   *)
(* <<nx, ny, den>> for (nx / den, ny / den), den > 0.                      *)

Cross(a, b) == a[1] * b[2] - a[2] * b[1]

Dot(a, b) == a[1] * b[1] + a[2] * b[2]

Minus(a, b) == <<a[1] - b[1], a[2] - b[2]>>

Sign(n) == IF n < 0 THEN -1 ELSE 1

\* the point p1 + (num / den) * (p2 - p1), den # 0
PointAt(p1, p2, num, den) ==
    <<Sign(den) * (p1[1] * den + num * (p2[1] - p1[1])),
      Sign(den) * (p1[2] * den + num * (p2[2] - p1[2])),
      Abs(den)>>

\* the intersection of the segments p1 p2 and q1 q2, neither of length 0:
\* nothing, one point, or a common stretch of positive length
SegmentIntersection(p1, p2, q1, q2) ==
    LET r == Minus(p2, p1)
        s == Minus(q2, q1)
        den == Cross(r, s)
        t == Cross(Minus(q1, p1), s)
        u == Cross(Minus(q1, p1), r)
        rr == Dot(r, r)
        t0 == Dot(Minus(q1, p1), r)
        t1 == Dot(Minus(q2, p1), r)
        lo == Max(0, Min(t0, t1))
        hi == Min(rr, Max(t0, t1))
    IN  IF den # 0
        THEN IF /\ 0 <= t * Sign(den) /\ t * Sign(den) <= Abs(den)
                /\ 0 <= u * Sign(den) /\ u * Sign(den) <= Abs(den)
             THEN [kind |-> "point", point |-> PointAt(p1, p2, t, den)]
             ELSE [kind |-> "none", point |-> <<0, 0, 1>>]
        ELSE IF Cross(Minus(q1, p1), r) # 0 \/ lo > hi
        THEN [kind |-> "none", point |-> <<0, 0, 1>>]
        ELSE IF lo = hi
        THEN [kind |-> "point", point |-> PointAt(p1, p2, lo, rr)]
        ELSE [kind |-> "overlap", point |-> <<0, 0, 1>>]

\* the segments of a coordinate list that have a length
Segments(coords) ==
    {<<coords[i], coords[i + 1]>> : i \in {j \in 1..(Len(coords) - 1) :
                                             coords[j] # coords[j + 1]}}

\* new_path.intersection(line_geom), segment by segment
Intersections(path_coords, line_coords) ==
    {SegmentIntersection(a[1], a[2], b[1], b[2]) :
        a \in Segments(path_coords), b \in Segments(line_coords)}
    \ {[kind |-> "none", point |-> <<0, 0, 1>>]}

\* the point x is the coordinate c
IsCoord(x, c) == x[1] = c[1] * x[3] /\ x[2] = c[2] * x[3]

\* the boundary of a LineString: its two ends, none when it is closed
Boundary(coords) ==
    IF coords[1] = Last(coords) THEN {} ELSE {coords[1], Last(coords)}

\* new_path.intersects(line_geom) and (new_path.crosses(line_geom) or not
\* new_path.touches(line_geom)): the two lines share a point that is an
\* end of neither
InteriorsIntersect(path_coords, line_coords) ==
    \E x \in Intersections(path_coords, line_coords) :
        \/ x.kind = "overlap"
        \/ \A c \in Boundary(path_coords) \cup Boundary(line_coords) :
               ~IsCoord(x.point, c)

\* is_near(pt, ref, 2.5): closer than the tolerance along both axes
is_near(pt, ref) ==
    /\ 2 * Abs(pt[1] - ref[1] * pt[3]) < ENDPOINT_TOLERANCE_X2 * pt[3]
    /\ 2 * Abs(pt[2] - ref[2] * pt[3]) < ENDPOINT_TOLERANCE_X2 * pt[3]

\* intersection is a Point or a MultiPoint whose points all lie near the
\* start or the end of the path
_is_endpoint_intersection(intersection, path_coords) ==
    /\ intersection # {}
    /\ \A x \in intersection :
           /\ x.kind = "point"
           /\ is_near(x.point, path_coords[1]) \/ is_near(x.point, Last(path_coords))

_estimate_height(line_type, annotation) ==
    IF "EW" \in annotation THEN 120
    ELSE IF line_type = "HV" THEN 105
    ELSE IF line_type = "LV" THEN 85
    ELSE IF "ACSR" \in annotation \/ "AL" \in annotation THEN 105
    ELSE IF "OW" \in annotation \/ "AO" \in annotation THEN 85
    ELSE 90

\* a crossing counts as safe only above a height difference of 1.5 m
HeightClearAbove(new_height, existing_height) ==
    Abs(new_height - existing_height) > MIN_HEIGHT_DIFF

\* height_diff >= 1.5: the crossing is on two levels
HeightClear(new_height, existing_height) ==
    Abs(new_height - existing_height) >= MIN_HEIGHT_DIFF

\* the body of the loop of validate_path: the line stays as a crossing
IsCrossing(line, path_coords, new_height) ==
    /\ line.is_obstacle
    /\ InteriorsIntersect(path_coords, line.coords)
    /\ ~_is_endpoint_intersection(Intersections(path_coords, line.coords), path_coords)
    /\ ~HeightClear(new_height,
                    _estimate_height(IF line.line_type = "" THEN "unknown"
                                     ELSE line.line_type,
                                     line.annotation))

\* ValidationResult.message of a rejected path: the text and the ids of
\* the crossing conductors
CrossingMessage(crossing_lines) ==
    "crossing with too small a height difference: " \o ToString(crossing_lines)

validate_path(lines, path_coords, new_line_type) ==
    LET new_height == IF new_line_type = "HV" THEN 105 ELSE 85
        line_geometries == SelectSeq(lines, LAMBDA l : Len(l.coords) >= 2)
        crossing_lines ==
            IF Len(path_coords) < 2 THEN <<>>
            ELSE SelectSeq(line_geometries,
                           LAMBDA l : IsCrossing(l, path_coords, new_height))
    IN  [is_valid |-> crossing_lines = <<>>,
         crossing_lines |-> [i \in 1..Len(crossing_lines) |-> crossing_lines[i].id]]

---------------------------------------------------------------------------
(* PoleAllocator (app/core/pole_allocator.py).                             *)
(* A NewPole is [sequence, pos, is_junction]: pos is the position along    *)
(* the path that allocate hands to path_line.interpolate to get the        *)
(* pole's coord.  The id of a pole is not part of it: the calls on the      *)
(* thread pool keep the ids they take from the shared pole_counter.        *)

\* PRD 4.1 formula: N = 1 + ceil((D - d1) / d2)
_calculate_pole_count(total_distance) ==
    IF total_distance <= FIRST_POLE_MAX_DISTANCE THEN 1
    ELSE 1 + ((total_distance - FIRST_POLE_MAX_DISTANCE) + (POLE_INTERVAL - 1))
                 \div POLE_INTERVAL

\* the while loop of _calculate_pole_positions
RECURSIVE IntervalPositions(_, _)
IntervalPositions(current_pos, effective_length) ==
    IF current_pos <= effective_length
    THEN <<current_pos>> \o IntervalPositions(current_pos + POLE_INTERVAL, effective_length)
    ELSE <<>>

\* positions with the buffer in front of the existing pole forgotten
PolePositionsNoBuffer(total_length) ==
    <<0>> \o IntervalPositions(POLE_INTERVAL, total_length)

_calculate_pole_positions(total_length) ==
    IF total_length <= MIN_DISTANCE_TO_EXISTING_POLE THEN <<0>>
    ELSE LET effective_length == total_length - MIN_DISTANCE_TO_EXISTING_POLE
             positions == <<0>> \o IntervalPositions(POLE_INTERVAL, effective_length)
             last == positions[Len(positions)]
         IN  IF effective_length <= POLE_INTERVAL THEN <<0>>
             ELSE IF (total_length - last) > POLE_INTERVAL /\ effective_length > last
                  THEN Append(positions, effective_length)
                  ELSE positions

\* the loop of _find_junctions from interior vertex i on, cumulative_distance
\* being the length of the path up to vertex i - 1
RECURSIVE JunctionsFrom(_, _, _)
JunctionsFrom(path_coords, i, cumulative_distance) ==
    IF i > Len(path_coords) - 1 THEN <<>>
    ELSE LET d == cumulative_distance
                  + calculate_distance(path_coords[i - 1], path_coords[i])
             rest == JunctionsFrom(path_coords, i + 1, d)
         IN  IF AngleBelowThreshold(path_coords[i - 1], path_coords[i], path_coords[i + 1])
             THEN <<[pos |-> d, is_junction |-> TRUE]>> \o rest
             ELSE rest

_find_junctions(path_coords) ==
    IF Len(path_coords) < 3 THEN <<>> ELSE JunctionsFrom(path_coords, 2, 0)

\* list.sort(key=pos): stable insertion of e into a sorted list
RECURSIVE InsertByPos(_, _)
InsertByPos(sorted, e) ==
    IF sorted = <<>> THEN <<e>>
    ELSE IF sorted[Len(sorted)].pos <= e.pos THEN Append(sorted, e)
    ELSE Append(InsertByPos(SubSeq(sorted, 1, Len(sorted) - 1), e), sorted[Len(sorted)])

RECURSIVE SortByPos(_)
SortByPos(s) ==
    IF s = <<>> THEN <<>>
    ELSE InsertByPos(SortByPos(SubSeq(s, 1, Len(s) - 1)), s[Len(s)])

\* the merging loop of _merge_positions over the sorted positions
RECURSIVE MergeLoop(_, _)
MergeLoop(merged, all_positions) ==
    IF all_positions = <<>> THEN merged
    ELSE LET e == Head(all_positions)
             rest == Tail(all_positions)
         IN  IF merged = <<>> THEN MergeLoop(<<e>>, rest)
             ELSE LET last == merged[Len(merged)]
                  IN  IF Abs(e.pos - last.pos) < merge_threshold
                      THEN IF e.is_junction /\ ~last.is_junction
                           THEN MergeLoop([merged EXCEPT ![Len(merged)] =
                                              [pos |-> e.pos, is_junction |-> TRUE]], rest)
                           ELSE MergeLoop(merged, rest)
                      ELSE MergeLoop(Append(merged, e), rest)

_merge_positions(regular_positions, junction_positions) ==
    LET all_positions ==
            [i \in 1..Len(regular_positions) |->
                [pos |-> regular_positions[i], is_junction |-> FALSE]]
            \o junction_positions
    IN  MergeLoop(<<>>, SortByPos(all_positions))

\* AllocationResult(path_result=path_result) with its defaults
EmptyAllocation(path_result, message) ==
    [path_result |-> path_result, new_poles |-> <<>>, total_wire_length |-> 0,
     turn_count |-> 0, message |-> message]

\* the Fast-Track branch of allocate without the pole at the consumer
FastTrackPolesNone == <<>>

\* allocate, Fast-Track branch: one pole at the consumer
FastTrackPoles == <<[sequence |-> 1, pos |-> 0, is_junction |-> FALSE]>>

allocate(path_result) ==
    IF ~path_result.is_reachable THEN EmptyAllocation(path_result, "unreachable")
    ELSE IF Len(path_result.path_coords) < 2
    THEN EmptyAllocation(path_result, "too few coordinates")
    ELSE IF path_result.is_fast_track
    THEN [path_result |-> path_result,
          new_poles |-> FastTrackPoles,
          total_wire_length |-> path_result.total_distance,
          turn_count |-> 0,
          message |-> "Fast Track"]
    ELSE LET path_coords == path_result.path_coords
             total_length == LineLength(path_coords)
             effective_length == total_length - MIN_DISTANCE_TO_EXISTING_POLE
             pole_positions == _calculate_pole_positions(total_length)
             junction_positions == _find_junctions(path_coords)
             filtered_junction_positions ==
                 SelectSeq(junction_positions, LAMBDA j : j.pos <= effective_length)
             all_positions == _merge_positions(pole_positions, filtered_junction_positions)
         IN  [path_result |-> path_result,
              new_poles |-> [i \in 1..Len(all_positions) |->
                                [sequence |-> i,
                                 pos |-> all_positions[i].pos,
                                 is_junction |-> all_positions[i].is_junction]],
              total_wire_length |-> total_length,
              turn_count |-> Len(junction_positions),
              message |-> "allocated"]

allocate_batch(path_results) ==
    [i \in 1..Len(path_results) |-> allocate(path_results[i])]

---------------------------------------------------------------------------
(* CostCalculator (app/core/cost_calculator.py).                           *)
(* A CostResult is [rank, cost_index, total_distance, new_poles_count,     *)
(* turn_count, start_pole_id, path_coordinates, is_fast_track, remark];    *)
(* the itemised cost in won is not modelled.  is_fast_track is             *)
(* allocation_result.path_result.is_fast_track; remark is "" for None.     *)

\* int(distance * W_dist) of a whole number of metres is the product
\* int(distance * W_dist) drops the fraction of a positive product; the
\* distance is counted in 1/unit metre
_calculate_cost_index(poles_count, distance, turn_count) ==
    poles_count * SCORE_WEIGHT_POLE
    + (distance * SCORE_WEIGHT_DISTANCE) \div unit
    + turn_count * SCORE_WEIGHT_TURN

calculate(allocation_result) ==
    LET path_result == allocation_result.path_result
        poles_count == Len(allocation_result.new_poles)
    IN  [rank |-> 0,
         cost_index |-> _calculate_cost_index(poles_count, path_result.total_distance,
                                              allocation_result.turn_count),
         total_distance |-> path_result.total_distance,
         new_poles_count |-> poles_count,
         turn_count |-> allocation_result.turn_count,
         start_pole_id |-> path_result.target_pole_id,
         path_coordinates |-> path_result.path_coords,
         is_fast_track |-> path_result.is_fast_track,
         remark |-> IF path_result.is_fast_track THEN "FastTrack" ELSE ""]

\* ranks handed out in the order of the allocations
CalculateBatchUnsorted(allocation_results) ==
    [i \in 1..Len(allocation_results) |->
        [calculate(allocation_results[i]) EXCEPT !.rank = i]]

calculate_batch(allocation_results) ==
    LET results == [i \in 1..Len(allocation_results) |-> calculate(allocation_results[i])]
        sorted == SortedByKey(results, [i \in 1..Len(results) |-> <<results[i].cost_index>>])
    IN  [i \in 1..Len(sorted) |-> [sorted[i] EXCEPT !.rank = i]]

---------------------------------------------------------------------------
(* EPSClient (app/core/eps_client.py) and phase 8 of DesignEngine.run.     *)
(* What trace_hv_pole brings back for a pole is one of FeederAnswers: a    *)
(* feeder id; "error" for a trace that failed (HTTP error, timeout, a body *)
(* that is not a JSON object) and, like it, for an answer without a feeder *)
(* id; "unhashable" for a feederId that is a JSON object or list.          *)

FeederAnswers == {"F1", "F2", "error", "unhashable"}

NoDuplicate == [has_duplicate |-> FALSE, duplicate_poles |-> {}]

\* feeder_map[feeder_id] of check_network_duplicate: the poles traced to
\* the feeder, in the order of pole_ids
FeederMap(pole_ids, feeder, feeder_id) ==
    SelectSeq(pole_ids, LAMBDA p : feeder[p] = feeder_id)

\* EPSClient.check_network_duplicate(pole_ids).  A feeder id that cannot
\* be a dict key raises TypeError inside the try block, which answers
\* has_duplicate = False.
check_network_duplicate(pole_ids, feeder) ==
    IF Len(pole_ids) < 2 THEN NoDuplicate
    ELSE IF \E i \in 1..Len(pole_ids) : feeder[pole_ids[i]] = "unhashable"
    THEN NoDuplicate
    ELSE LET duplicate_poles ==
                 {pole_ids[i] : i \in {k \in 1..Len(pole_ids) :
                     /\ feeder[pole_ids[k]] \notin {"", "error"}
                     /\ Len(FeederMap(pole_ids, feeder, feeder[pole_ids[k]])) >= 2}}
         IN  [has_duplicate |-> duplicate_poles # {},
              duplicate_poles |-> duplicate_poles]

\* what the server may answer when asked about pole_ids: nothing useful,
\* or one of FeederAnswers for each pole it is asked about (it is asked
\* about none when fewer than two are handed over)
EpsAnswers(pole_ids) ==
    {[health |-> "down", feeder |-> <<>>]}
    \cup {[health |-> "up", feeder |-> f] :
             f \in IF Len(pole_ids) < 2 THEN {<<>>}
                   ELSE [{pole_ids[i] : i \in 1..Len(pole_ids)} -> FeederAnswers]}

\* cost_results[:5]
TopResults(results) == SubSeq(results, 1, Min(5, Len(results)))

\* a phase 8 that takes the results of the duplicated poles out of the list
AnnotateByRemoving(results, duplicate_check) ==
    SelectSeq(results, LAMBDA r : r.start_pole_id \notin duplicate_check.duplicate_poles)

\* run, phase 8: the remark of every result whose start pole is among the
\* duplicates gets the warning appended
annotate(results, duplicate_check) ==
    [i \in 1..Len(results) |->
        IF duplicate_check.has_duplicate
           /\ results[i].start_pole_id \in duplicate_check.duplicate_poles
        THEN [results[i] EXCEPT !.remark = @ \o " | duplicate feeder"]
        ELSE results[i]]

---------------------------------------------------------------------------
(* The allocator on its own: PoleAllocator.allocate_batch handed a         *)
(* PathResult built by the caller (src/test_pole_allocation.py).           *)

\* longest polyline, in segments
MaxSegs == 3

\* segment vectors: along the axes, and the directions (4,3) and (12,5),
\* which turn a path heading east by 36.9 and 22.6 degrees
Vecs == {<<5, 0>>, <<20, 0>>, <<30, 0>>, <<35, 0>>, <<70, 0>>, <<120, 0>>,
         <<400, 0>>, <<0, 5>>, <<0, 40>>, <<8, 6>>, <<24, 10>>}

\* the polyline from the origin along the vectors vs
RECURSIVE Polyline(_, _)
Polyline(start, vs) ==
    IF vs = <<>> THEN <<start>>
    ELSE <<start>> \o Polyline(<<start[1] + vs[1][1], start[2] + vs[1][2]>>, Tail(vs))

Polylines == {Polyline(<<0, 0>>, vs) : vs \in UNION {[1..n -> Vecs] : n \in 1..MaxSegs}}

\* PathResult of a routed path, total_distance its geometric length
RoutedPath(coords, fast) ==
    [target_pole_id |-> 1, target_coord |-> coords[Len(coords)],
     path_coords |-> coords, total_distance |-> LineLength(coords),
     total_weight |-> LineLength(coords),
     is_reachable |-> TRUE, is_fast_track |-> fast]

AllocInputs ==
    {RoutedPath(c, FALSE) : c \in Polylines}
    \cup {RoutedPath(c, TRUE) :
            c \in {q \in Polylines : Len(q) = 2 /\ LineLength(q) <= FAST_TRACK_DISTANCE}}
    \cup {RoutedPath(<<<<0, 0>>>>, FALSE), UnreachablePath(1, <<120, 0>>)}

InitAlloc ==
    /\ pc = "allocate"
    /\ phase_code = PHASE_SINGLE
    /\ consumer_coord = <<0, 0>>
    /\ data = EmptyData
    /\ selection_result = NoSelection
    /\ road_graph = EmptyGraph
    /\ paths \in {<<p>> : p \in AllocInputs}
    /\ allocations = <<>>
    /\ cost_results = <<>>
    /\ response = NoResponse
    /\ exception = ""
    /\ unit = 1
    /\ ProcessStart

\* Phase 6: allocator.allocate_batch(paths).  With more than two paths
\* DesignEngine runs allocate per path on a thread pool and gathers the
\* results in the order of the paths.
AllocatePoles ==
    /\ pc = "allocate"
    /\ allocations' = allocate_batch(paths)
    /\ pc' = "cost"
    /\ UNCHANGED <<phase_code, consumer_coord, data, selection_result, road_graph,
                   paths, cost_results, response, exception>>
    /\ UNCHANGED <<process_vars, parallel_vars, boundary_vars>>

NextAlloc == AllocatePoles

SpecAlloc == InitAlloc /\ [][NextAlloc]_vars

---------------------------------------------------------------------------
(* One design request.  Init holds the ProcessedData the preprocessor      *)
(* hands over; Select is phase 3 of DesignEngine.run.  From there the      *)
(* request goes on either inside run (RunNoCandidate, RunFastTrackCheck)   *)
(* or in the hands of a caller that holds the stage objects itself and     *)
(* calls them in the order of run (tests/test_integration.py,              *)
(* TestFullPipeline): BuildGraph, FindPaths, ValidatePaths, AllocatePoles, *)
(* CalculateBatch, and the response builders ConvertToRoutes and           *)
(* CreateFastTrackResponse.                                                *)
(*                                                                         *)
(* The consumer stands 30 m north of a road along y = 0.  All roads are    *)
(* parallel to an axis, so the foot of a perpendicular is a whole-metre    *)
(* point, and every pole is a whole number of metres from the consumer.    *)

\* most poles in the area
MaxPoles == 2

ConsumerSite == <<100, 30>>

\* pole id |-> coordinate.  From the consumer: 1 and 2 within Fast-Track
\* range (50 m, 40 m); 3 and 4 at 260 m and 265 m along the road; 5 at
\* exactly 400 m along the road; 6 at 400 m in a straight line and 460 m
\* along the road; 7 more than 100 m away from the road; 8 at 441 m
PoleSites == <<(<<130, 70>>), (<<60, 30>>), (<<300, 30>>), (<<305, 30>>),
               (<<440, 30>>), (<<500, 30>>), (<<100, 130>>), (<<541, 30>>)>>

\* the conductor classes the preprocessor produces (_process_hv_lines,
\* _process_lv_lines), and a Line built without a line_type
LineKinds ==
    [LV |-> [line_type |-> "LV", phase_code |-> "1", voltage |-> 220,
             is_obstacle |-> TRUE, annotation |-> {}],
     HV1 |-> [line_type |-> "HV", phase_code |-> "1", voltage |-> NoVoltage,
              is_obstacle |-> TRUE, annotation |-> {}],
     HV3 |-> [line_type |-> "HV", phase_code |-> "3", voltage |-> 22900,
              is_obstacle |-> TRUE, annotation |-> {}],
     EW |-> [line_type |-> "HV", phase_code |-> "1", voltage |-> NoVoltage,
             is_obstacle |-> TRUE, annotation |-> {"EW"}],
     DV |-> [line_type |-> "LV", phase_code |-> "1", voltage |-> 220,
             is_obstacle |-> FALSE, annotation |-> {"DV"}],
     untyped |-> [line_type |-> "", phase_code |-> "1", voltage |-> NoVoltage,
                  is_obstacle |-> TRUE, annotation |-> {}]]

MakeLine(id, coords, kind, start_pole_id) ==
    [id |-> id, coords |-> coords,
     line_type |-> LineKinds[kind].line_type,
     phase_code |-> LineKinds[kind].phase_code,
     voltage |-> LineKinds[kind].voltage,
     start_pole_id |-> start_pole_id, end_pole_id |-> NoPole,
     is_obstacle |-> LineKinds[kind].is_obstacle,
     annotation |-> LineKinds[kind].annotation]

\* the elements of a set of numbers in ascending order
RECURSIVE Ascending(_)
Ascending(S) ==
    IF S = {} THEN <<>>
    ELSE LET m == CHOOSE x \in S : \A y \in S : x <= y
         IN  <<m>> \o Ascending(S \ {m})

\* the poles at the sites of feeder, each with the conductor that feeds it
\* running 100 m north, away from the road; a pole fed by a three-phase HV
\* conductor is a three-phase pole
PolesAt(feeder) ==
    LET ids == Ascending(DOMAIN feeder)
    IN  [i \in 1..Len(ids) |->
            [id |-> ids[i], coord |-> PoleSites[ids[i]],
             phase_code |-> IF feeder[ids[i]] = "HV3" THEN "3" ELSE "1"]]

FeedersAt(feeder) ==
    LET ids == Ascending({i \in DOMAIN feeder : feeder[i] # "none"})
    IN  [i \in 1..Len(ids) |->
            MakeLine(ids[i],
                     <<PoleSites[ids[i]],
                       <<PoleSites[ids[i]][1], PoleSites[ids[i]][2] + 100>>>>,
                     feeder[ids[i]], ids[i])]

\* the feeders of at most MaxPoles poles at the given sites
Feeders(sites, kinds) ==
    UNION {[S -> kinds] : S \in {T \in SUBSET sites : Cardinality(T) <= MaxPoles}}

\* road layouts: no road; one road; two roads 8 m apart (snapped); two
\* roads 12 m apart; a road with a side loop between x = 200 and x = 300;
\* a road that starts 200 m east of the consumer
RoadLayouts ==
    {<<>>,
     <<(<<(<<0, 0>>), (<<200, 0>>), (<<600, 0>>)>>)>>,
     <<(<<(<<0, 0>>), (<<200, 0>>)>>), (<<(<<208, 0>>), (<<600, 0>>)>>)>>,
     <<(<<(<<0, 0>>), (<<200, 0>>)>>), (<<(<<212, 0>>), (<<600, 0>>)>>)>>,
     <<(<<(<<0, 0>>), (<<200, 0>>), (<<300, 0>>), (<<600, 0>>)>>),
       (<<(<<200, 0>>), (<<200, -40>>), (<<300, -40>>), (<<300, 0>>)>>)>>,
     <<(<<(<<300, 0>>), (<<600, 0>>)>>)>>}

OneRoad == <<(<<(<<0, 0>>), (<<200, 0>>), (<<600, 0>>)>>)>>

\* no building, or one on the sight-line from the consumer to pole 1
BuildingLayouts ==
    {<<>>, <<[xmin |-> 110, ymin |-> 45, xmax |-> 120, ymax |-> 55]>>}

\* conductors that are fed from outside the area: across the road between
\* the consumer and poles 3 to 6; across the last span to poles 3 and 4,
\* 2 m and 3 m before the pole; ending on the road; along the road; across
\* the sight-line to pole 1; through the consumer
CrossingRoad == <<(<<250, -20>>), (<<250, 20>>)>>

CrossingSightLine == <<(<<100, 50>>), (<<130, 50>>)>>

PassingLines ==
    {CrossingRoad,
     <<(<<290, 28>>), (<<310, 28>>)>>,
     <<(<<290, 27>>), (<<310, 27>>)>>,
     <<(<<250, 0>>), (<<250, 40>>)>>,
     <<(<<150, 0>>), (<<180, 0>>)>>,
     CrossingSightLine,
     <<(<<90, 30>>), (<<110, 30>>)>>}

\* areas without a passing conductor, and areas on the one road with one
\* or with two
Areas ==
    {[poles |-> PolesAt(f), lines |-> FeedersAt(f), roads |-> r, buildings |-> b] :
        f \in Feeders(DOMAIN PoleSites, {"none", "LV", "HV1", "HV3"}),
        r \in RoadLayouts, b \in BuildingLayouts}
    \cup
    {[poles |-> PolesAt(f),
      lines |-> Append(FeedersAt(f), MakeLine(100, c, k, NoPole)),
      roads |-> OneRoad, buildings |-> <<>>] :
        f \in Feeders(1..4, {"LV", "HV3"}),
        c \in PassingLines, k \in {"LV", "HV1", "EW", "DV", "untyped"}}
    \cup
    {[poles |-> PolesAt(f),
      lines |-> FeedersAt(f) \o <<MakeLine(100, CrossingRoad, k1, NoPole),
                                  MakeLine(101, CrossingSightLine, k2, NoPole)>>,
      roads |-> OneRoad, buildings |-> <<>>] :
        f \in Feeders({1, 3}, {"LV", "HV3"}),
        k1 \in {"LV", "HV1", "EW"}, k2 \in {"LV", "HV1", "EW"}}

Init ==
    /\ pc = "select"
    /\ phase_code \in {PHASE_SINGLE, PHASE_THREE}
    /\ consumer_coord = ConsumerSite
    /\ data \in Areas
    /\ selection_result = NoSelection
    /\ road_graph = EmptyGraph
    /\ paths = <<>>
    /\ allocations = <<>>
    /\ cost_results = <<>>
    /\ response = NoResponse
    /\ exception = ""
    /\ unit = 1
    /\ ProcessStart

\* Phase 3: TargetSelector(processed_data).select(consumer_coord, phase_code)
Select ==
    /\ pc = "select"
    /\ selection_result' = select(data, consumer_coord, phase_code)
    /\ pc' = "selected"
    /\ UNCHANGED <<phase_code, consumer_coord, data, road_graph, paths, allocations,
                   cost_results, response, exception>>
    /\ UNCHANGED <<process_vars, parallel_vars, boundary_vars>>

\* run: no candidate, the response is NO_ROUTE with the selector's message
RunNoCandidate ==
    /\ pc = "selected"
    /\ selection_result.targets = <<>>
    /\ response' = [status |-> "no_route", routes |-> <<>>,
                    error_message |-> selection_result.message,
                    has_processing_time |-> FALSE]
    /\ pc' = "returned"
    /\ UNCHANGED <<phase_code, consumer_coord, data, selection_result, road_graph,
                   paths, allocations, cost_results, exception>>
    /\ UNCHANGED <<process_vars, parallel_vars, boundary_vars>>

\* run: with candidates the Fast-Track check reads
\* selection_result.fast_track_targets, which SelectionResult does not have;
\* the AttributeError is caught by run and answered with FAILED
RunFastTrackCheck ==
    /\ pc = "selected"
    /\ selection_result.targets # <<>>
    /\ response' = [status |-> "failed", routes |-> <<>>,
                    error_message |-> "AttributeError: fast_track_targets",
                    has_processing_time |-> TRUE]
    /\ pc' = "returned"
    /\ UNCHANGED <<phase_code, consumer_coord, data, selection_result, road_graph,
                   paths, allocations, cost_results, exception>>
    /\ UNCHANGED <<process_vars, parallel_vars, boundary_vars>>

\* Phase 4: RoadGraphBuilder(processed_data).build(consumer_coord, targets)
BuildGraph ==
    /\ pc = "selected"
    /\ selection_result.targets # <<>>
    /\ data.roads # <<>>
    /\ road_graph' = build(data.roads, consumer_coord, selection_result.targets)
    /\ pc' = "graph"
    /\ UNCHANGED <<phase_code, consumer_coord, data, selection_result, paths,
                   allocations, cost_results, response, exception>>
    /\ UNCHANGED <<process_vars, parallel_vars, boundary_vars>>

\* _create_fast_track_response, where run calls it: without roads, or when
\* no pole got connected to a road, and a Fast-Track target exists.  It
\* passes voltage_override to VoltageCalculator.calculate, which has no
\* such parameter: the TypeError leaves the builder before a route exists.
CreateFastTrackResponse ==
    /\ \/ pc = "selected" /\ data.roads = <<>>
       \/ pc = "graph" /\ road_graph.pole_node_ids = <<>>
    /\ selection_result.fast_track_target # <<>>
    /\ exception' = "TypeError"
    /\ pc' = "raised"
    /\ UNCHANGED <<phase_code, consumer_coord, data, selection_result, road_graph,
                   paths, allocations, cost_results, response>>
    /\ UNCHANGED <<process_vars, parallel_vars, boundary_vars>>

\* Phase 5: Pathfinder(road_graph).find_paths(targets, max_paths=10)
FindPaths ==
    /\ pc = "graph"
    /\ road_graph.pole_node_ids # <<>>
    /\ paths' = find_paths(road_graph, selection_result.targets, MAX_PATHS)
    /\ pc' = "paths"
    /\ UNCHANGED <<phase_code, consumer_coord, data, selection_result, road_graph,
                   allocations, cost_results, response, exception>>
    /\ UNCHANGED <<process_vars, parallel_vars, boundary_vars>>

\* Phase 5.5: the paths without a remaining crossing are kept; the new
\* conductor is HV for a three-phase request and LV otherwise
ValidatePaths ==
    /\ pc = "paths"
    /\ paths # <<>>
    /\ LET new_line_type == IF phase_code = PHASE_THREE THEN "HV" ELSE "LV"
           valid_paths ==
               SelectSeq(paths,
                         LAMBDA p : validate_path(data.lines, p.path_coords,
                                                  new_line_type).is_valid)
       IN  /\ paths' = valid_paths
           /\ pc' = IF valid_paths = <<>> THEN "no_valid_path" ELSE "allocate"
    /\ UNCHANGED <<phase_code, consumer_coord, data, selection_result, road_graph,
                   allocations, cost_results, response, exception>>
    /\ UNCHANGED <<process_vars, parallel_vars, boundary_vars>>

\* run: no path is left after the validation, the response is NO_ROUTE
\* with the fixed text of run; validation.message has only been logged
RunNoValidPath ==
    /\ pc = "no_valid_path"
    /\ response' = [status |-> "no_route", routes |-> <<>>,
                    error_message |-> "all paths cross existing conductors",
                    has_processing_time |-> FALSE]
    /\ pc' = "returned"
    /\ UNCHANGED <<phase_code, consumer_coord, data, selection_result, road_graph,
                   paths, allocations, cost_results, exception>>
    /\ UNCHANGED <<process_vars, parallel_vars, boundary_vars>>

\* Phase 7: CostCalculator(detailed_mode=True).calculate_batch(allocations)
CalculateBatch ==
    /\ pc = "cost"
    /\ cost_results' = calculate_batch(allocations)
    /\ pc' = "ranked"
    /\ UNCHANGED <<phase_code, consumer_coord, data, selection_result, road_graph,
                   paths, allocations, response, exception>>
    /\ UNCHANGED <<process_vars, parallel_vars, boundary_vars>>

\* Phase 8: eps_client.health_check(), then check_network_duplicate for the
\* start poles of the first five results.  health is "down" when the
\* server answers with a status of 500 or more, or not at all.  Whatever
\* is raised in the phase is logged and dropped.
VerifyDuplicates ==
    /\ pc = "ranked"
    /\ LET top == TopResults(cost_results)
           top_pole_ids == [i \in 1..Len(top) |-> top[i].start_pole_id]
       IN  \E answer \in EpsAnswers(top_pole_ids) :
               /\ eps' = answer
               /\ cost_results' =
                      annotate(cost_results,
                               IF answer.health = "up"
                               THEN check_network_duplicate(top_pole_ids, answer.feeder)
                               ELSE NoDuplicate)
    /\ pc' = "verified"
    /\ UNCHANGED <<phase_code, consumer_coord, data, selection_result, road_graph,
                   paths, allocations, response, exception>>
    /\ UNCHANGED <<process_vars, parallel_vars, unit, http, raw_data>>

\* Phase 9: _convert_to_routes_v2 passes voltage_override to
\* VoltageCalculator.calculate for the first cost result: the TypeError
\* leaves the conversion before a route exists
ConvertToRoutes ==
    /\ pc = "verified"
    /\ cost_results # <<>>
    /\ exception' = "TypeError"
    /\ pc' = "raised"
    /\ UNCHANGED <<phase_code, consumer_coord, data, selection_result, road_graph,
                   paths, allocations, cost_results, response>>
    /\ UNCHANGED <<process_vars, parallel_vars, boundary_vars>>

Next ==
    \/ Select
    \/ RunNoCandidate
    \/ RunFastTrackCheck
    \/ BuildGraph
    \/ CreateFastTrackResponse
    \/ FindPaths
    \/ ValidatePaths
    \/ RunNoValidPath
    \/ AllocatePoles
    \/ CalculateBatch
    \/ VerifyDuplicates
    \/ ConvertToRoutes

Spec == Init /\ [][Next]_vars

---------------------------------------------------------------------------
(* The graph builder on its own, with coordinates in half metres           *)
(* (unit = 2): build called for one candidate pole on an area whose        *)
(* processed data has no conductor.  The poles are more than 50 m and less *)
(* than 400 m away from the consumer.                                      *)

\* a road of 200 m; the same road with a vertex in the middle; two roads
\* with a gap of 4 m between them
HalfMetreRoads ==
    {<<(<<(<<0, 0>>), (<<400, 0>>)>>)>>,
     <<(<<(<<0, 0>>), (<<200, 0>>), (<<400, 0>>)>>)>>,
     <<(<<(<<0, 0>>), (<<196, 0>>)>>), (<<(<<204, 0>>), (<<400, 0>>)>>)>>}

\* consumers on the road 0.5 m and 1 m after its first vertex, on the
\* vertex, and beside the road
HalfMetreConsumers == {<<1, 0>>, <<2, 0>>, <<0, 0>>, <<1, 1>>, <<40, 20>>, <<0, 30>>}

\* poles on the road 0.5 m and 1 m before its last vertex, on the vertex,
\* behind it, and beside the road
HalfMetrePoles ==
    {<<399, 0>>, <<398, 0>>, <<400, 0>>, <<401, 0>>, <<399, 1>>, <<399, 10>>,
     <<300, 0>>, <<300, 6>>, <<201, 0>>}

InitGraph ==
    /\ pc = "selected"
    /\ unit = 2
    /\ phase_code = PHASE_SINGLE
    /\ consumer_coord \in HalfMetreConsumers
    /\ \E r \in HalfMetreRoads, c \in HalfMetrePoles :
          /\ data = [poles |-> <<[id |-> 1, coord |-> c, phase_code |-> "1"]>>,
                     lines |-> <<>>, roads |-> r, buildings |-> <<>>]
          /\ selection_result =
                 [targets |-> <<TargetOf(data.poles[1], <<>>, <<>>, consumer_coord,
                                         PHASE_SINGLE)>>,
                  fast_track_target |-> <<>>, message |-> ""]
    /\ road_graph = EmptyGraph
    /\ paths = <<>>
    /\ allocations = <<>>
    /\ cost_results = <<>>
    /\ response = NoResponse
    /\ exception = ""
    /\ ProcessStart

NextGraph == BuildGraph

SpecGraph == InitGraph /\ [][NextGraph]_vars

---------------------------------------------------------------------------
(* Phases 1 and 2 of run: the dict get_all_data returns is handed to        *)
(* DataPreprocessor.process as it is.  A feature is the record of the      *)
(* properties and of the geometry type the line processing reads.  The     *)
(* area of this specification has conductors only: the lists of poles,     *)
(* roads and buildings are empty, and so are their processed lists.        *)

\* the features of layer AI_FAC_002 (high-voltage spans) the server may send
HvFeatures ==
    {[GID |-> 1, FAC_STAT_CD |-> st, REMOVE_YN |-> rm, geometry |-> g,
      PRWR_KND_CD |-> "", coords |-> <<(<<0, 50>>), (<<200, 50>>)>>] :
        st \in {"", "R"}, rm \in {"", "Y"}, g \in {"LineString", "Point", "none"}}

\* the features of layer AI_FAC_003 (low-voltage lines and service drops)
LvFeatures ==
    {[GID |-> 2, FAC_STAT_CD |-> st, REMOVE_YN |-> "", geometry |-> g,
      PRWR_KND_CD |-> k, coords |-> <<(<<0, 70>>), (<<200, 70>>)>>] :
        st \in {"", "D"}, g \in {"LineString", "none"}, k \in {"OW", "DV"}}

\* at most one feature of a layer
AtMostOne(features) == {<<>>} \cup {<<f>> : f \in features}

\* raw_data.get(key, [])
Get(d, key) == IF key \in DOMAIN d THEN d[key] ELSE <<>>

\* the removed and deleted states, and a feature without a LineString
Skipped(feature) ==
    \/ feature.FAC_STAT_CD \in {"D", "R", "DD", "RR"}
    \/ feature.geometry # "LineString"

_process_hv_lines(raw_lines) ==
    LET kept == SelectSeq(raw_lines,
                          LAMBDA f : ~Skipped(f) /\ f.REMOVE_YN # "Y")
    IN  [i \in 1..Len(kept) |-> MakeLine(kept[i].GID, kept[i].coords, "HV1", NoPole)]

_process_lv_lines(raw_lines) ==
    LET kept == SelectSeq(raw_lines, LAMBDA f : ~Skipped(f))
    IN  [i \in 1..Len(kept) |->
            MakeLine(kept[i].GID, kept[i].coords,
                     IF kept[i].PRWR_KND_CD = "DV" THEN "DV" ELSE "LV", NoPole)]

\* DataPreprocessor.process
process(raw) ==
    [poles |-> Get(raw, "poles"),
     lines |-> _process_hv_lines(Get(raw, "lines_hv"))
               \o _process_lv_lines(Get(raw, "lines_lv")),
     roads |-> Get(raw, "roads"),
     buildings |-> Get(raw, "buildings")]

InitHandoff ==
    /\ pc = "fetch"
    /\ phase_code = PHASE_SINGLE
    /\ consumer_coord = <<100, 30>>
    /\ data = EmptyData
    /\ selection_result = NoSelection
    /\ road_graph = EmptyGraph
    /\ paths = <<>>
    /\ allocations = <<>>
    /\ cost_results = <<>>
    /\ response = NoResponse
    /\ exception = ""
    /\ unit = 1
    /\ ProcessStart

\* raw_data = await self.wfs_client.get_all_data(...): the dict of the
\* five layers
GetAllData(lines, transformers) ==
    /\ pc = "fetch"
    /\ raw_data' = [poles |-> <<>>, lines |-> lines, transformers |-> transformers,
                    roads |-> <<>>, buildings |-> <<>>]
    /\ pc' = "preprocess"
    /\ UNCHANGED <<phase_code, consumer_coord, data, selection_result, road_graph,
                   paths, allocations, cost_results, response, exception>>
    /\ UNCHANGED <<process_vars, parallel_vars, unit, http, eps>>

\* processed_data = preprocessor.process(raw_data)
Process ==
    /\ pc = "preprocess"
    /\ data' = process(raw_data)
    /\ pc' = "select"
    /\ UNCHANGED <<phase_code, consumer_coord, selection_result, road_graph,
                   paths, allocations, cost_results, response, exception>>
    /\ UNCHANGED <<process_vars, parallel_vars, boundary_vars>>

NextHandoff ==
    \/ \E lines \in AtMostOne(HvFeatures), transformers \in AtMostOne(LvFeatures) :
          GetAllData(lines, transformers)
    \/ Process

SpecHandoff == InitHandoff /\ [][NextHandoff]_vars

---------------------------------------------------------------------------
(* The request of the first seed scenario: a single-phase request of the   *)
(* consumer at (100, 100) with one HV pole at (130, 100) and no building.  *)
(* The scenario leaves the roads of the area and the HV conductor that     *)
(* feeds the pole open.                                                    *)

SeedConsumer == <<100, 100>>

SeedPole == <<130, 100>>

\* no road; roads through, beside and across the sight-line; a road out
\* of reach of consumer and pole
SeedRoads ==
    {<<>>,
     <<(<<(<<0, 100>>), (<<200, 100>>)>>)>>,
     <<(<<(<<100, 100>>), (<<130, 100>>)>>)>>,
     <<(<<(<<0, 90>>), (<<200, 90>>)>>)>>,
     <<(<<(<<0, 60>>), (<<200, 60>>)>>)>>,
     <<(<<(<<115, 0>>), (<<115, 200>>)>>)>>,
     <<(<<(<<0, 90>>), (<<115, 90>>)>>), (<<(<<115, 90>>), (<<200, 90>>)>>)>>,
     <<(<<(<<0, 90>>), (<<110, 90>>)>>), (<<(<<118, 90>>), (<<200, 90>>)>>)>>,
     <<(<<(<<0, 400>>), (<<200, 400>>)>>)>>,
     <<(<<(<<0, 0>>), (<<200, 0>>), (<<600, 0>>)>>)>>}

SeedAreas ==
    {[poles |-> <<[id |-> 1, coord |-> SeedPole,
                   phase_code |-> IF k = "HV3" THEN "3" ELSE "1"]>>,
      lines |-> <<MakeLine(1, <<SeedPole, <<SeedPole[1], SeedPole[2] + 100>>>>, k, 1)>>,
      roads |-> r, buildings |-> <<>>] :
        k \in {"HV1", "HV3"}, r \in SeedRoads}

InitSeed ==
    /\ pc = "select"
    /\ phase_code = PHASE_SINGLE
    /\ consumer_coord = SeedConsumer
    /\ data \in SeedAreas
    /\ selection_result = NoSelection
    /\ road_graph = EmptyGraph
    /\ paths = <<>>
    /\ allocations = <<>>
    /\ cost_results = <<>>
    /\ response = NoResponse
    /\ exception = ""
    /\ unit = 1
    /\ ProcessStart

NextSeed ==
    \/ Select
    \/ RunFastTrackCheck
    \/ BuildGraph
    \/ CreateFastTrackResponse
    \/ FindPaths
    \/ ValidatePaths
    \/ AllocatePoles
    \/ CalculateBatch
    \/ VerifyDuplicates
    \/ ConvertToRoutes

SpecSeed == InitSeed /\ [][NextSeed]_vars

---------------------------------------------------------------------------
(* The cost calculator on its own, with the lengths of the paths kept to   *)
(* the tenth of a metre (unit = 10): calculate_batch called with the       *)
(* allocations of one path each.  The coordinates stay in whole metres;    *)
(* total_distance and total_wire_length carry the tenths the float sum of  *)
(* the segment lengths has.                                                *)

\* the tenths of a metre a path is longer than its whole metres
Tenths == {0, 4, 5, 6, 9}

\* the allocation of a path of LineLength(coords) metres and tenths / 10
MeasuredAllocation(coords, tenths) ==
    LET a == allocate(RoutedPath(coords, FALSE))
    IN  [a EXCEPT !.path_result.total_distance = 10 * @ + tenths,
                  !.path_result.total_weight = 10 * @ + tenths,
                  !.total_wire_length = 10 * @ + tenths]

InitCost ==
    /\ pc = "cost"
    /\ phase_code = PHASE_SINGLE
    /\ consumer_coord = <<0, 0>>
    /\ data = EmptyData
    /\ selection_result = NoSelection
    /\ road_graph = EmptyGraph
    /\ paths = <<>>
    /\ allocations \in {<<MeasuredAllocation(c, t)>> : c \in Polylines, t \in Tenths}
    /\ cost_results = <<>>
    /\ response = NoResponse
    /\ exception = ""
    /\ unit = 10
    /\ ProcessStart

NextCost == CalculateBatch

SpecCost == InitCost /\ [][NextCost]_vars

---------------------------------------------------------------------------
(* Phase 1 of DesignEngine.run for MaxRequests requests at once on one     *)
(* event loop: get_all_data gathers one _fetch_features coroutine per      *)
(* layer.  A coroutine is suspended only while session.post is in flight;  *)
(* the steps of WFSCache are taken one at a time, the lock being           *)
(* threading.Lock, so that any thread may be the caller.  The service      *)
(* never closes the pool: close_pool is called by a script when it exits.  *)

\* x coordinate of the consumer of request r: 1000 or 1005, which round to
\* one key per layer (the corner 805 is rounded to the even neighbour 800)
CenterOf(r) == 1000 + 5 * ((r - 1) % 2)

\* what the server may send: a FeatureCollection with or without features,
\* a body that is not JSON (a ServiceExceptionReport in XML)
Bodies == {"features", "no_features", "not_json"}

\* response.raise_for_status() raising, the connection failing
FetchErrors == {"http_error", "network_error"}

TasksOf(r) == {t \in Tasks : t[1] = r}

Lookup(key) == IF key \in DOMAIN wfs_cache THEN wfs_cache[key] ELSE Miss

InitFetch ==
    /\ pc = "fetch"
    /\ phase_code = PHASE_SINGLE
    /\ consumer_coord = <<0, 0>>
    /\ data = EmptyData
    /\ selection_result = NoSelection
    /\ road_graph = EmptyGraph
    /\ paths = <<>>
    /\ allocations = <<>>
    /\ cost_results = <<>>
    /\ response = NoResponse
    /\ exception = ""
    /\ unit = 1
    /\ ProcessStart

\* get_all_data(consumer_x, consumer_y, BBOX_SIZE) creates the fetches
get_all_data(r, center) ==
    /\ requests[r].pc = "idle"
    /\ requests' = [requests EXCEPT ![r] = [pc |-> "fetching", center |-> center,
                                            status |-> "none"]]
    /\ fetches' = [t \in Tasks |->
                      IF t[1] = r
                      THEN [IdleFetch EXCEPT
                               !.pc = "lookup", !.center = center,
                               !.key = generate_key(UrlOf(t[2]),
                                                    calculate_bbox(center), t[2])]
                      ELSE fetches[t]]
    /\ UNCHANGED <<wfs_cache, cache_lock, clearing, pool_session, sessions>>

\* run with a coordinate that parses: phase 1 starts
StartRequest(r) ==
    /\ get_all_data(r, CenterOf(r))
    /\ UNCHANGED <<request_vars, enrich_vars, parallel_vars, boundary_vars>>

\* WFSCache.get: with self._lock
CacheGetEnter(t) ==
    /\ fetches[t].pc = "lookup"
    /\ CanAcquire(cache_lock)
    /\ cache_lock' = t
    /\ fetches' = [fetches EXCEPT ![t].pc = "in_get"]
    /\ UNCHANGED <<wfs_cache, clearing, pool_session, sessions, requests>>
    /\ UNCHANGED <<request_vars, enrich_vars, parallel_vars, boundary_vars>>

\* WFSCache.get: self._cache.get(key), which drops the entry when it is
\* older than ttl, and _fetch_features returns a hit
CacheGetExit(t, expired) ==
    /\ fetches[t].pc = "in_get"
    /\ expired => fetches[t].key \in DOMAIN wfs_cache
    /\ cache_lock' = Free
    /\ wfs_cache' = IF expired
                    THEN [k \in DOMAIN wfs_cache \ {fetches[t].key} |-> wfs_cache[k]]
                    ELSE wfs_cache
    /\ fetches' = [fetches EXCEPT ![t] =
                      IF ~expired /\ Lookup(fetches[t].key) # Miss
                      THEN [@ EXCEPT !.pc = "returned", !.body = "cached",
                                     !.result = Lookup(fetches[t].key)]
                      ELSE [@ EXCEPT !.pc = "get_session"]]
    /\ UNCHANGED <<clearing, pool_session, sessions, requests>>
    /\ UNCHANGED <<request_vars, enrich_vars, parallel_vars, boundary_vars>>

\* session = await WFSConnectionPool.get_session(); session.post(...)
GetSession(t) ==
    /\ fetches[t].pc = "get_session"
    /\ LET got == get_session(pool_session, sessions)
       IN  /\ Len(got.sessions) <= MaxSessions
           /\ pool_session' = got.session
           /\ sessions' = got.sessions
           /\ fetches' = [fetches EXCEPT ![t].pc = "awaiting",
                                         ![t].session = got.session]
    /\ UNCHANGED <<wfs_cache, cache_lock, clearing, requests>>
    /\ UNCHANGED <<request_vars, enrich_vars, parallel_vars, boundary_vars>>

\* the response arrives and is parsed
Respond(t, body) ==
    /\ fetches[t].pc = "awaiting"
    /\ LET parsed == ParseBody(body, t[2])
       IN  fetches' = [fetches EXCEPT ![t] =
                          [@ EXCEPT !.pc = IF parsed.store THEN "store" ELSE "returned",
                                    !.body = body, !.result = parsed.result]]
    /\ UNCHANGED <<wfs_cache, cache_lock, clearing, pool_session, sessions,
                   requests>>
    /\ UNCHANGED <<request_vars, enrich_vars, parallel_vars, boundary_vars>>

\* except aiohttp.ClientResponseError / except Exception: raise
RaiseFetchError(t, error) ==
    /\ fetches[t].pc = "awaiting"
    /\ error \in FetchErrors
    /\ fetches' = [fetches EXCEPT ![t].pc = "raised"]
    /\ UNCHANGED <<wfs_cache, cache_lock, clearing, pool_session, sessions,
                   requests>>
    /\ UNCHANGED <<request_vars, enrich_vars, parallel_vars, boundary_vars>>

\* WFSCache.set: with self._lock
CacheSetEnter(t) ==
    /\ fetches[t].pc = "store"
    /\ CanAcquire(cache_lock)
    /\ cache_lock' = t
    /\ fetches' = [fetches EXCEPT ![t].pc = "in_set"]
    /\ UNCHANGED <<wfs_cache, clearing, pool_session, sessions, requests>>
    /\ UNCHANGED <<request_vars, enrich_vars, parallel_vars, boundary_vars>>

\* WFSCache.set: self._cache[key] = data, and _fetch_features returns
CacheSetExit(t) ==
    /\ fetches[t].pc = "in_set"
    /\ wfs_cache' = [k \in DOMAIN wfs_cache \cup {fetches[t].key} |->
                        IF k = fetches[t].key THEN fetches[t].result ELSE wfs_cache[k]]
    /\ cache_lock' = Free
    /\ fetches' = [fetches EXCEPT ![t].pc = "returned"]
    /\ UNCHANGED <<clearing, pool_session, sessions, requests>>
    /\ UNCHANGED <<request_vars, enrich_vars, parallel_vars, boundary_vars>>

\* WFSClient.clear_cache: with self._lock
ClearEnter ==
    /\ ~clearing
    /\ wfs_cache # <<>>
    /\ CanAcquire(cache_lock)
    /\ cache_lock' = ClearCaller
    /\ clearing' = TRUE
    /\ UNCHANGED <<wfs_cache, pool_session, sessions, fetches, requests>>
    /\ UNCHANGED <<request_vars, enrich_vars, parallel_vars, boundary_vars>>

\* WFSCache.clear: self._cache.clear()
ClearExit ==
    /\ clearing
    /\ wfs_cache' = <<>>
    /\ cache_lock' = Free
    /\ clearing' = FALSE
    /\ UNCHANGED <<pool_session, sessions, fetches, requests>>
    /\ UNCHANGED <<request_vars, enrich_vars, parallel_vars, boundary_vars>>

\* asyncio.gather raises the exception of a fetch; run answers FAILED
GatherRaises(r) ==
    /\ requests[r].pc = "fetching"
    /\ \E t \in TasksOf(r) : fetches[t].pc = "raised"
    /\ requests' = [requests EXCEPT ![r].pc = "returned", ![r].status = "failed"]
    /\ UNCHANGED <<wfs_cache, cache_lock, clearing, pool_session, sessions,
                   fetches>>
    /\ UNCHANGED <<request_vars, enrich_vars, parallel_vars, boundary_vars>>

\* asyncio.gather returns raw_data; without a pole run answers NO_ROUTE,
\* with poles it goes on to phase 3
GatherReturns(r) ==
    /\ requests[r].pc = "fetching"
    /\ \A t \in TasksOf(r) : fetches[t].pc = "returned"
    /\ requests' = [requests EXCEPT
                       ![r].pc = IF fetches[<<r, "pole">>].result.features = "some"
                                 THEN "selecting" ELSE "returned",
                       ![r].status = IF fetches[<<r, "pole">>].result.features = "some"
                                     THEN "none" ELSE "no_route"]
    /\ UNCHANGED <<wfs_cache, cache_lock, clearing, pool_session, sessions,
                   fetches>>
    /\ UNCHANGED <<request_vars, enrich_vars, parallel_vars, boundary_vars>>

NextFetch ==
    \/ \E r \in 1..MaxRequests : StartRequest(r)
    \/ \E t \in Tasks : CacheGetEnter(t)
    \/ \E t \in Tasks, expired \in BOOLEAN : CacheGetExit(t, expired)
    \/ \E t \in Tasks : GetSession(t)
    \/ \E t \in Tasks, body \in Bodies : Respond(t, body)
    \/ \E t \in Tasks, error \in FetchErrors : RaiseFetchError(t, error)
    \/ \E t \in Tasks : CacheSetEnter(t)
    \/ \E t \in Tasks : CacheSetExit(t)
    \/ ClearEnter
    \/ ClearExit
    \/ \E r \in 1..MaxRequests : GatherRaises(r)
    \/ \E r \in 1..MaxRequests : GatherReturns(r)

SpecFetch == InitFetch /\ [][NextFetch]_vars

---------------------------------------------------------------------------
(* POST /design (app/api/routes.py) with the validators of DesignRequest   *)
(* (app/models/request.py) in front of DesignEngine.run.  A string is the  *)
(* sequence of its characters.                                             *)

DigitChars == <<"0", "1", "2", "3", "4", "5", "6", "7", "8", "9">>

IsDigit(c) == \E d \in 1..10 : DigitChars[d] = c

DigitValue(c) == (CHOOSE d \in 1..10 : DigitChars[d] = c) - 1

\* str(n) of a natural number
RECURSIVE Digits(_)
Digits(n) ==
    IF n < 10 THEN <<DigitChars[n + 1]>>
    ELSE Digits(n \div 10) \o <<DigitChars[(n % 10) + 1]>>

\* v.split(',')
RECURSIVE split(_)
split(v) ==
    IF \E i \in 1..Len(v) : v[i] = ","
    THEN LET i == CHOOSE k \in 1..Len(v) :
                     v[k] = "," /\ \A l \in 1..(k - 1) : v[l] # ","
         IN  <<SubSeq(v, 1, i - 1)>> \o split(SubSeq(v, i + 1, Len(v)))
    ELSE <<v>>

\* s.strip()
RECURSIVE strip(_)
strip(s) ==
    IF s # <<>> /\ s[1] = " " THEN strip(Tail(s))
    ELSE IF s # <<>> /\ s[Len(s)] = " " THEN strip(SubSeq(s, 1, Len(s) - 1))
    ELSE s

\* the value of a run of digits
RECURSIVE DigitsValue(_)
DigitsValue(s) ==
    IF s = <<>> THEN 0
    ELSE 10 * DigitsValue(SubSeq(s, 1, Len(s) - 1)) + DigitValue(s[Len(s)])

RECURSIVE PowerOfTen(_)
PowerOfTen(k) == IF k = 0 THEN 1 ELSE 10 * PowerOfTen(k - 1)

ValueError == [ok |-> FALSE, nan |-> FALSE, num |-> 0, den |-> 1]

\* float(s) of a decimal literal, of "nan", or ValueError: the value is
\* num / den
float(s) ==
    LET body == IF s # <<>> /\ s[1] \in {"-", "+"} THEN Tail(s) ELSE s
        sign == IF s # <<>> /\ s[1] = "-" THEN -1 ELSE 1
        dots == {i \in 1..Len(body) : body[i] = "."}
        dot == IF dots = {} THEN Len(body) + 1 ELSE CHOOSE i \in dots : TRUE
        whole == SubSeq(body, 1, dot - 1)
        fraction == SubSeq(body, dot + 1, Len(body))
    IN  IF body = <<"n", "a", "n">>
        THEN [ok |-> TRUE, nan |-> TRUE, num |-> 0, den |-> 1]
        ELSE IF \/ Cardinality(dots) > 1
                \/ whole \o fraction = <<>>
                \/ \E i \in 1..Len(whole) : ~IsDigit(whole[i])
                \/ \E i \in 1..Len(fraction) : ~IsDigit(fraction[i])
        THEN ValueError
        ELSE [ok |-> TRUE, nan |-> FALSE,
              num |-> sign * (DigitsValue(whole) * PowerOfTen(Len(fraction))
                              + DigitsValue(fraction)),
              den |-> PowerOfTen(Len(fraction))]

\* lo < x < hi for a float x; every comparison with nan is False
Between(lo, x, hi) == ~x.nan /\ lo * x.den < x.num /\ x.num < hi * x.den

\* DesignRequest.validate_coord: TRUE when it returns v, FALSE when it
\* raises ValueError
validate_coord(v) ==
    LET parts == split(v)
    IN  /\ Len(parts) = 2
        /\ float(strip(parts[1])).ok
        /\ float(strip(parts[2])).ok
        /\ Between(13000000, float(strip(parts[1])), 16000000)
        /\ Between(3500000, float(strip(parts[2])), 5500000)

\* a validator that lets every phase code through
ValidatePhaseCodeAny(v) == TRUE

\* DesignRequest.validate_phase_code
validate_phase_code(v) == v \in {PHASE_SINGLE, PHASE_THREE}

\* run: the coordinate parsing of its first lines, which reads parts[0]
\* and parts[1] only; IndexError and ValueError are caught
ParseCoord(coord) ==
    LET parts == split(coord)
    IN  IF Len(parts) < 2 THEN ValueError
        ELSE IF ~float(strip(parts[1])).ok \/ ~float(strip(parts[2])).ok
        THEN ValueError
        ELSE float(strip(parts[1]))

\* the bodies a client posts: coordinates the validator is written for ...
WellFormedCoords ==
    {Digits(14241940) \o <<".", "8", ",">> \o Digits(4437601) \o <<".", "6">>,
     <<" ">> \o Digits(14241945) \o <<" ", ",", " ">> \o Digits(4437601)}

\* ... coordinates that are not "x,y" with two numbers ...
MalformedCoords ==
    {<<>>,
     Digits(14241940),
     Digits(14241940) \o <<",">> \o Digits(4437601) \o <<",">> \o Digits(7),
     <<"a", "b", "c", ",">> \o Digits(4437601),
     Digits(14241940) \o <<",", "1", ".", "2", ".", "3">>,
     <<"n", "a", "n", ",">> \o Digits(4437601),
     Digits(14241940) \o <<",">>}

\* ... and two numbers that are not a place in the service area
OutOfRangeCoords ==
    {Digits(100) \o <<",">> \o Digits(100),
     <<"-">> \o Digits(14241940) \o <<",">> \o Digits(4437601)}

PostedCoords == WellFormedCoords \cup MalformedCoords \cup OutOfRangeCoords

PostedPhases == {PHASE_SINGLE, PHASE_THREE, "2", ""}

\* create_design(request: DesignRequest): the body is validated while the
\* DesignRequest is built; a ValueError of a validator is answered with 422
\* and create_design is not called
PostDesign(r, coord, phase) ==
    /\ http[r].pc = "idle"
    /\ http' = [http EXCEPT ![r] =
                   IF validate_coord(coord) /\ validate_phase_code(phase)
                   THEN [pc |-> "accepted", coord |-> coord, phase_code |-> phase,
                         status_code |-> 0]
                   ELSE [pc |-> "rejected", coord |-> coord, phase_code |-> phase,
                         status_code |-> 422]]
    /\ UNCHANGED <<unit, raw_data, eps>>
    /\ UNCHANGED <<request_vars, process_vars, parallel_vars>>

\* create_design: engine.run(coord=request.coord, phase_code=...), up to the
\* call of get_all_data or to the response for a coordinate run cannot parse
RunDesign(r) ==
    /\ http[r].pc = "accepted"
    /\ requests[r].pc = "idle"
    /\ LET consumer_x == ParseCoord(http[r].coord)
       IN  IF consumer_x.ok
           THEN /\ get_all_data(r, IF consumer_x.nan THEN 0
                                   ELSE consumer_x.num \div consumer_x.den)
                /\ http' = [http EXCEPT ![r].pc = "running"]
           ELSE /\ requests' = [requests EXCEPT ![r].pc = "returned",
                                                ![r].status = "failed"]
                /\ http' = [http EXCEPT ![r].pc = "answered", ![r].status_code = 200]
                /\ UNCHANGED <<wfs_cache, cache_lock, clearing, pool_session,
                               sessions, fetches>>
    /\ UNCHANGED <<unit, raw_data, eps>>
    /\ UNCHANGED <<request_vars, enrich_vars, parallel_vars>>

NextApi ==
    \/ \E r \in 1..MaxRequests, coord \in PostedCoords, phase \in PostedPhases :
          PostDesign(r, coord, phase)
    \/ \E r \in 1..MaxRequests : RunDesign(r)
    \/ \E t \in Tasks : CacheGetEnter(t)
    \/ \E t \in Tasks, expired \in BOOLEAN : CacheGetExit(t, expired)
    \/ \E t \in Tasks : GetSession(t)
    \/ \E t \in Tasks, body \in Bodies : Respond(t, body)
    \/ \E t \in Tasks, error \in FetchErrors : RaiseFetchError(t, error)
    \/ \E t \in Tasks : CacheSetEnter(t)
    \/ \E t \in Tasks : CacheSetExit(t)
    \/ \E r \in 1..MaxRequests : GatherRaises(r)
    \/ \E r \in 1..MaxRequests : GatherReturns(r)

SpecApi == InitFetch /\ [][NextApi]_vars

---------------------------------------------------------------------------
(* DataPreprocessor._enrich_pole_data_spatially                            *)
(* (app/core/preprocessor.py), run by process() for the requests of one    *)
(* process.  process() is called from the coroutine DesignEngine.run       *)
(* without an await, so that a run is one step of the event loop.          *)

\* pole.geometry.buffer(radius) with radius = 2.5, doubled
ENRICH_RADIUS_X2 == 5

\* pole id (GID) |-> coordinate of the pole
EnrichSites == <<(<<0, 0>>), (<<50, 0>>)>>

\* the conductors the line layers may hold: a three-phase HV conductor
\* that starts at pole 1, an LV conductor from 2 m beside pole 1 to pole 2,
\* a single-phase HV conductor running diagonally 7 m past pole 2 (pole 2
\* lies within its extent), and an LV conductor far from both poles
EnrichLines ==
    <<[coords |-> <<(<<0, 0>>), (<<0, 100>>)>>, kind |-> "HV3"],
      [coords |-> <<(<<2, 0>>), (<<50, 0>>)>>, kind |-> "LV"],
      [coords |-> <<(<<40, -20>>), (<<80, 20>>)>>, kind |-> "HV1"],
      [coords |-> <<(<<200, 200>>), (<<300, 200>>)>>, kind |-> "LV"]>>

\* what process() is given: the ids of the poles that pass the filters and
\* the conductors of the line layers
RawInputs ==
    [poles : SUBSET (1..Len(EnrichSites)), lines : SUBSET (1..Len(EnrichLines))]

\* a Pole as _process_poles builds it: pole_type = None, phase_code = None
Unclassified == [type |-> "", phase |-> ""]

\* tree.query(geometry): the geometries whose extent meets the extent of
\* the buffer around the pole
Nearby(pole_id, lines) ==
    {i \in lines :
        LET c == EnrichLines[i].coords
            p == EnrichSites[pole_id]
        IN  /\ 2 * Min(c[1][1], c[2][1]) <= 2 * p[1] + ENRICH_RADIUS_X2
            /\ 2 * Max(c[1][1], c[2][1]) >= 2 * p[1] - ENRICH_RADIUS_X2
            /\ 2 * Min(c[1][2], c[2][2]) <= 2 * p[2] + ENRICH_RADIUS_X2
            /\ 2 * Max(c[1][2], c[2][2]) >= 2 * p[2] - ENRICH_RADIUS_X2}

\* p_type and p_phase of a pole from the conductors near it
Analyze(pole_id, lines) ==
    LET near == {LineKinds[EnrichLines[i].kind] : i \in Nearby(pole_id, lines)}
    IN  [type |-> IF \E l \in near : l.line_type = "HV" THEN "H" ELSE "L",
         phase |-> IF \E l \in near : l.phase_code = "3" THEN "3" ELSE "1"]

PolesToAnalyzeAll(poles, cache) == poles

poles_to_analyze(poles, cache) == {p \in poles : p \notin DOMAIN cache}

\* the roles of the poles after the call, and the cache after it
_enrich_pole_data_spatially(poles, lines, cache) ==
    IF poles = {} \/ lines = {}
    THEN [poles |-> [p \in poles |-> Unclassified], cache |-> cache]
    ELSE LET new == poles_to_analyze(poles, cache)
         IN  [poles |-> [p \in poles |->
                            IF p \in new THEN Analyze(p, lines) ELSE cache[p]],
              cache |-> [p \in DOMAIN cache \cup new |->
                            IF p \in new THEN Analyze(p, lines) ELSE cache[p]]]

InitEnrich ==
    /\ pc = "preprocess"
    /\ phase_code = PHASE_SINGLE
    /\ consumer_coord = <<0, 0>>
    /\ data = EmptyData
    /\ selection_result = NoSelection
    /\ road_graph = EmptyGraph
    /\ paths = <<>>
    /\ allocations = <<>>
    /\ cost_results = <<>>
    /\ response = NoResponse
    /\ exception = ""
    /\ unit = 1
    /\ ProcessStart

\* run of request r: processed_data = self.preprocessor.process(raw_data)
Preprocess(r, input) ==
    /\ LET out == _enrich_pole_data_spatially(input.poles, input.lines, role_cache)
       IN  /\ role_cache' = out.cache
           /\ processed' = [processed EXCEPT ![r] = [input |-> input, poles |-> out.poles]]
    /\ UNCHANGED <<request_vars, fetch_vars, parallel_vars, boundary_vars>>

NextEnrich == \E r \in 1..MaxRequests, input \in RawInputs : Preprocess(r, input)

SpecEnrich == InitEnrich /\ [][NextEnrich]_vars

---------------------------------------------------------------------------
(* Phases 6 and 7 of DesignEngine.run with more than two paths:            *)
(* _allocate_poles_parallel submits one allocate call per path to a        *)
(* thread pool of four and gathers the futures.  The calls share the       *)
(* allocator; each new pole takes its id from self.pole_counter, which a   *)
(* call reads, writes and reads again without a lock.                      *)

\* most paths handed to the allocator
MaxParallel == 3

\* target pole id |-> path from the consumer: 30 m east and 30 m north (one
\* new pole each, the same cost index), 45 m with a right-angle turn and
\* 70 m east (two new poles each, the longer one the cheaper)
ParallelCoords ==
    <<(<<(<<0, 0>>), (<<30, 0>>)>>),
      (<<(<<0, 0>>), (<<0, 30>>)>>),
      (<<(<<0, 0>>), (<<20, 0>>), (<<20, 25>>)>>),
      (<<(<<0, 0>>), (<<70, 0>>)>>)>>

ParallelPath(target) ==
    [target_pole_id |-> target, target_coord |-> Last(ParallelCoords[target]),
     path_coords |-> ParallelCoords[target],
     total_distance |-> LineLength(ParallelCoords[target]),
     total_weight |-> LineLength(ParallelCoords[target]),
     is_reachable |-> TRUE, is_fast_track |-> FALSE]

\* the lists find_paths returns: distinct targets, ascending total_weight
ParallelInputs ==
    {ps \in UNION {[1..n -> {ParallelPath(t) : t \in 1..Len(ParallelCoords)}] :
                     n \in 3..MaxParallel} :
        /\ \A i, j \in 1..Len(ps) : i < j => ps[i] # ps[j]
        /\ \A i \in 1..Len(ps) - 1 : ps[i].total_weight <= ps[i + 1].total_weight}

\* asyncio.gather(*futures): the results in the order of the futures
GatherAsCompleted(results, order) == [k \in 1..Len(order) |-> results[order[k]]]

gather(results, order) == [i \in 1..Len(results) |-> results[i]]

InitParallel ==
    /\ pc = "allocate"
    /\ phase_code = PHASE_SINGLE
    /\ consumer_coord = <<0, 0>>
    /\ data = EmptyData
    /\ selection_result = NoSelection
    /\ road_graph = EmptyGraph
    /\ paths \in ParallelInputs
    /\ allocations = <<>>
    /\ cost_results = <<>>
    /\ response = NoResponse
    /\ exception = ""
    /\ unit = 1
    /\ ProcessStart

\* loop.run_in_executor(executor, allocator.allocate, path) for each path
SubmitAllocations ==
    /\ pc = "allocate"
    /\ Len(paths) > 2
    /\ workers = <<>>
    /\ workers' = [i \in 1..Len(paths) |->
                      [pc |-> IF allocate(paths[i]).new_poles = <<>>
                              THEN "return" ELSE "load",
                       tmp |-> 0, ids |-> <<>>]]
    /\ UNCHANGED <<pole_counter, completed>>
    /\ UNCHANGED <<request_vars, process_vars, boundary_vars>>

\* self.pole_counter += 1: the read
LoadCounter(i) ==
    /\ workers[i].pc = "load"
    /\ workers' = [workers EXCEPT ![i].pc = "store", ![i].tmp = pole_counter]
    /\ UNCHANGED <<pole_counter, completed>>
    /\ UNCHANGED <<request_vars, process_vars, boundary_vars>>

\* self.pole_counter += 1: the write
StoreCounter(i) ==
    /\ workers[i].pc = "store"
    /\ pole_counter' = workers[i].tmp + 1
    /\ workers' = [workers EXCEPT ![i].pc = "name"]
    /\ UNCHANGED completed
    /\ UNCHANGED <<request_vars, process_vars, boundary_vars>>

\* NewPole(id=f"NEW_POLE_{self.pole_counter}", ...)
NamePole(i) ==
    /\ workers[i].pc = "name"
    /\ LET ids == Append(workers[i].ids, pole_counter)
       IN  workers' = [workers EXCEPT
                          ![i].ids = ids,
                          ![i].pc = IF Len(ids) < Len(allocate(paths[i]).new_poles)
                                    THEN "load" ELSE "return"]
    /\ UNCHANGED <<pole_counter, completed>>
    /\ UNCHANGED <<request_vars, process_vars, boundary_vars>>

\* allocate returns its AllocationResult; the future is done
ReturnAllocation(i) ==
    /\ workers[i].pc = "return"
    /\ workers' = [workers EXCEPT ![i].pc = "done"]
    /\ completed' = Append(completed, i)
    /\ UNCHANGED pole_counter
    /\ UNCHANGED <<request_vars, process_vars, boundary_vars>>

\* results = await asyncio.gather(*futures); return list(results)
GatherAllocations ==
    /\ pc = "allocate"
    /\ workers # <<>>
    /\ \A i \in 1..Len(workers) : workers[i].pc = "done"
    /\ allocations' = gather(allocate_batch(paths), completed)
    /\ pc' = "cost"
    /\ UNCHANGED <<phase_code, consumer_coord, data, selection_result, road_graph,
                   paths, cost_results, response, exception>>
    /\ UNCHANGED <<process_vars, parallel_vars, boundary_vars>>

NextParallel ==
    \/ SubmitAllocations
    \/ \E i \in 1..Len(workers) : LoadCounter(i)
    \/ \E i \in 1..Len(workers) : StoreCounter(i)
    \/ \E i \in 1..Len(workers) : NamePole(i)
    \/ \E i \in 1..Len(workers) : ReturnAllocation(i)
    \/ GatherAllocations
    \/ CalculateBatch

SpecParallel == InitParallel /\ [][NextParallel]_vars

---------------------------------------------------------------------------
(* Properties of a design request.  A route is a ranked CostResult: the    *)
(* response builder copies rank, cost_index, total_distance,               *)
(* new_poles_count, start_pole_id and path_coordinates of each CostResult  *)
(* into one RouteResult.                                                   *)

\* the candidates find_paths routes over the road graph
RoutedTargets ==
    {i \in 1..Len(selection_result.targets) :
        /\ ~selection_result.targets[i].is_fast_track
        /\ \E n \in road_graph.nodes : n.id = POLE(selection_result.targets[i].pole.id)}

\* one round of relaxing every edge of g; dist is a set of pairs
\* <<node id, distance>>
Relax(g, dist) ==
    {<<p[1],
       LET through == UNION {{q[2] + e.distance :
                                 q \in {r \in dist : r[1] \in e.ends \ {p[1]}}} :
                                e \in {f \in g.edges : p[1] \in f.ends}}
                      \cup {p[2]}
       IN  CHOOSE d \in through : \A x \in through : d <= x>> : p \in dist}

RECURSIVE Relaxed(_, _, _)
Relaxed(g, dist, rounds) ==
    IF rounds = 0 THEN dist ELSE Relaxed(g, Relax(g, dist), rounds - 1)

\* the least cumulative geometric length of a path from source to target
\* in g, inf when there is none
ShortestDistance(g, source, target) ==
    LET start == {<<n.id, IF n.id = source THEN 0 ELSE inf>> : n \in g.nodes}
        final == Relaxed(g, start, Cardinality(g.nodes))
    IN  (CHOOSE p \in final : p[1] = target)[2]

C2_RankedByCostIndex ==
    \A i \in 1..Len(cost_results) :
        /\ cost_results[i].rank = i
        /\ i < Len(cost_results)
           => cost_results[i].cost_index <= cost_results[i + 1].cost_index

\* two routes ranked in another order than their allocations came in
C2_Witness ==
    /\ pc = "ranked"
    /\ Len(cost_results) >= 2
    /\ cost_results[1].start_pole_id # allocations[1].path_result.target_pole_id
    /\ cost_results[1].cost_index < cost_results[2].cost_index

\* the stage after the validation of the paths
Validated ==
    \/ pc \in {"allocate", "no_valid_path", "cost", "ranked", "verified"}
    \/ pc = "raised" /\ cost_results # <<>>

\* height of the new conductor, in tenths of a metre: 10.5 m for a
\* three-phase request, 8.5 m otherwise
NewConductorHeight == IF phase_code = PHASE_THREE THEN 105 ELSE 85

\* the obstacle conductors that cross path_coords elsewhere than at a
\* connection to its start or end (within the 2.5 m the validator allows),
\* at an estimated height less than 1.5 m from that of the new conductor
RemainingCrossings(path_coords) ==
    {i \in 1..Len(data.lines) :
        LET line == data.lines[i]
            height == _estimate_height(IF line.line_type = "" THEN "unknown"
                                       ELSE line.line_type, line.annotation)
        IN  /\ line.is_obstacle
            /\ InteriorsIntersect(path_coords, line.coords)
            /\ ~_is_endpoint_intersection(Intersections(path_coords, line.coords),
                                          path_coords)
            /\ Abs(NewConductorHeight - height) < MIN_HEIGHT_DIFF}

ConnectedToHV(pole_id) ==
    \E i \in 1..Len(data.lines) :
        /\ LineIsHighVoltage(data.lines[i])
        /\ pole_id \in {data.lines[i].start_pole_id, data.lines[i].end_pole_id}

\* C4: for a three-phase request every selected candidate is connected to
\* at least one HV conductor, so a pole with LV conductors only or with no
\* conductor is neither a candidate nor the source pole of a path or route.
C4_ThreePhaseNeedsHV ==
    phase_code = PHASE_THREE
    => /\ \A i \in 1..Len(selection_result.targets) :
              ConnectedToHV(selection_result.targets[i].pole.id)
       /\ selection_result.fast_track_target # <<>>
          => ConnectedToHV(selection_result.fast_track_target[1].pole.id)
       /\ \A i \in 1..Len(paths) : ConnectedToHV(paths[i].target_pole_id)
       /\ \A i \in 1..Len(cost_results) : ConnectedToHV(cost_results[i].start_pole_id)

\* a three-phase request is routed to an HV pole while a pole with an LV
\* conductor only stands within reach and is not a candidate
C4_Witness ==
    /\ phase_code = PHASE_THREE
    /\ pc = "ranked"
    /\ cost_results # <<>>
    /\ \E i \in 1..Len(data.poles) :
           /\ ~ConnectedToHV(data.poles[i].id)
           /\ \E k \in 1..Len(data.lines) : data.lines[k].start_pole_id = data.poles[i].id
           /\ calculate_distance(consumer_coord, data.poles[i].coord) <= MAX_DISTANCE_LIMIT
           /\ \A k \in 1..Len(selection_result.targets) :
                  selection_result.targets[k].pole.id # data.poles[i].id

IgnoredAsConnection(path_coords) ==
    {i \in 1..Len(data.lines) :
        /\ data.lines[i].is_obstacle
        /\ InteriorsIntersect(path_coords, data.lines[i].coords)
        /\ _is_endpoint_intersection(Intersections(path_coords, data.lines[i].coords),
                                     path_coords)}

\* C11: the validator passes over an intersection of a path found and an
\* obstacle conductor as a pole connection only when every point of the
\* intersection is exactly the start point or the end point of the path.
C11_IgnoredOnlyAtEndpoints ==
    Validated
    => \A p \in Range(find_paths(road_graph, selection_result.targets, MAX_PATHS)) :
           \A i \in IgnoredAsConnection(p.path_coords) :
               \A x \in Intersections(p.path_coords, data.lines[i].coords) :
                   /\ x.kind = "point"
                   /\ \/ IsCoord(x.point, p.path_coords[1])
                      \/ IsCoord(x.point, Last(p.path_coords))

---------------------------------------------------------------------------
(* Properties of the fetches.                                              *)

\* the callers that are inside a method of WFSCache
InsideCache ==
    {t \in Tasks : fetches[t].pc \in {"in_get", "in_set"}}
    \cup (IF clearing THEN {ClearCaller} ELSE {})

\* the list was parsed from an answer to a request with this key
StoredUnder(list, key) == key[1] = UrlOf(list.layer) /\ key[2] = list.layer

\* C12: at most one caller is inside a lookup, an insertion or a clear of
\* the tile cache at any time, and a lookup that hits returns a feature
\* list that was stored under the key it asked for.
C12_CacheSafe ==
    /\ Cardinality(InsideCache) <= 1
    /\ \A key \in DOMAIN wfs_cache : StoredUnder(wfs_cache[key], key)
    /\ \A t \in Tasks :
           fetches[t].body = "cached"
           => fetches[t].result # Miss /\ StoredUnder(fetches[t].result, fetches[t].key)

\* a fetch of one request has returned the list that a fetch of the other
\* request stored, while a third fetch is inside set and a fourth waits
\* for the lock
C12_Witness ==
    /\ \E t \in Tasks : fetches[t].body = "cached" /\ fetches[t].result.features = "some"
    /\ \E t \in Tasks : fetches[t].pc = "in_set"
    /\ \E t \in Tasks : fetches[t].pc \in {"lookup", "store"}

\* the sessions of the pool that are open
OpenSessions == {i \in 1..Len(sessions) : sessions[i] = "open"}

\* C15: the pool holds at most one open HTTP session; fetches that run
\* concurrently and find no open session do not create two, and every
\* fetch posts on the session the pool shares.
C15_OneSharedSession ==
    /\ Cardinality(OpenSessions) <= 1
    /\ OpenSessions \subseteq {pool_session}
    /\ \A t \in Tasks :
           fetches[t].pc = "awaiting" /\ fetches[t].session \in OpenSessions
           => fetches[t].session = pool_session

\* fetches of both requests await their answers on the one session that the
\* first of them created
C15_Witness ==
    /\ Len(sessions) = 1
    /\ \E t1, t2 \in Tasks :
           /\ t1[1] # t2[1]
           /\ fetches[t1].pc = "awaiting" /\ fetches[t2].pc = "awaiting"
           /\ fetches[t1].session = pool_session
           /\ fetches[t2].session = pool_session

\* the fetches of request r that failed: an error was raised, or the body
\* could not be parsed
FailedFetches(r) ==
    {t \in TasksOf(r) : fetches[t].pc = "raised" \/ fetches[t].body = "not_json"}

\* C17: a request one of whose per-layer fetches met a network or protocol
\* error answers failed; it never goes on with, or answers no_route from,
\* a layer that was replaced by empty data.
C17_FetchErrorIsFatal ==
    \A r \in 1..MaxRequests :
        requests[r].pc \in {"selecting", "returned"} /\ FailedFetches(r) # {}
        => requests[r].status = "failed"

---------------------------------------------------------------------------
(* Properties of the pole enrichment.                                      *)

\* C13: the pole-role cache is write-once per pole id: in every step of
\* every interleaving of preprocessing runs, an entry that exists stays in
\* the cache with the type and phase it has.
C13_RoleCacheWriteOnce ==
    [][\A p \in DOMAIN role_cache :
          p \in DOMAIN role_cache' /\ role_cache'[p] = role_cache[p]]_vars

\* a run has met a cached pole together with conductors from which it would
\* have classified the pole differently
C13_Witness ==
    \E r \in 1..MaxRequests :
        \E p \in processed[r].input.poles \cap DOMAIN role_cache :
            /\ processed[r].input.lines # {}
            /\ Analyze(p, processed[r].input.lines) # role_cache[p]

\* C14: a preprocessing run whose input contains a pole that is in the
\* cache gives the pole the cached type and phase, and two runs on the same
\* raw input give every pole the same type and phase.
C14_ClassificationReused ==
    /\ [][\A r \in 1..MaxRequests :
            processed'[r] # processed[r]
            => \A p \in processed'[r].input.poles \cap DOMAIN role_cache :
                   processed'[r].poles[p] = role_cache[p]]_vars
    /\ [](\A r1, r2 \in 1..MaxRequests :
            processed[r1].input = processed[r2].input
            => processed[r1].poles = processed[r2].poles)

---------------------------------------------------------------------------
(* Properties of the parallel allocation.                                  *)

\* C16: whatever the order in which the allocate calls of the paths
\* complete, the ranked list is the one that allocating the paths one after
\* the other gives.
C16_RankIndependentOfCompletion ==
    pc = "ranked" => cost_results = calculate_batch(allocate_batch(paths))

\* two paths of equal cost index have been ranked after their calls
\* completed in the reverse of the order of the paths, with the pole counter
\* having lost an update on the way
C16_Witness ==
    /\ pc = "ranked"
    /\ \E i, j \in 1..Len(cost_results) :
           i # j /\ cost_results[i].cost_index = cost_results[j].cost_index
    /\ \A k \in 1..Len(completed) : completed[k] = Len(completed) + 1 - k
    /\ \E i, j \in 1..Len(workers) :
           i # j /\ Range(workers[i].ids) \cap Range(workers[j].ids) # {}

---------------------------------------------------------------------------
(* Properties of the road attachment and of the rejected request.          *)

\* the point is farther than the road-access distance from every road
FarFromRoads(coord) ==
    \A i \in 1..Len(data.roads) :
        \A s \in Segments(data.roads[i]) :
            SqDist(coord, NearestOnSegment(coord, s[1], s[2]))
                > ROAD_ACCESS_DISTANCE * ROAD_ACCESS_DISTANCE

Attachable == SelectSeq(selection_result.targets, LAMBDA t : ~FarFromRoads(t.pole.coord))

\* the graph has been built
GraphBuilt ==
    pc \in {"graph", "paths", "no_valid_path", "allocate", "cost", "ranked", "verified"}

\* C19 as stated: a candidate that cannot be attached to a road within the
\* road-access distance is never the source pole of a route, the graph and
\* the paths are those of the attachable candidates, and nothing fails.
C19_UnattachableNeverRouted ==
    GraphBuilt
    => /\ road_graph = build(data.roads, consumer_coord, Attachable)
       /\ \A i \in 1..Len(cost_results) :
              \E t \in Range(Attachable) : t.pole.id = cost_results[i].start_pole_id
       /\ exception = ""

\* C19, amended: a candidate that cannot be attached to a road is the
\* source pole of a route only as the Fast-Track candidate; the graph and
\* the routed paths are those of the attachable candidates, and nothing
\* fails.
C19_UnattachableOnlyFastTrack ==
    GraphBuilt
    => /\ road_graph = build(data.roads, consumer_coord, Attachable)
       /\ \A i \in 1..Len(paths) :
              \/ paths[i].is_fast_track
              \/ \E t \in Range(Attachable) : t.pole.id = paths[i].target_pole_id
       /\ \A i \in 1..Len(cost_results) :
              \/ cost_results[i].is_fast_track
              \/ \E t \in Range(Attachable) : t.pole.id = cost_results[i].start_pole_id
       /\ exception = ""

\* one candidate could not be attached, and the route from another one,
\* along the road, has been ranked
C19_Witness ==
    /\ pc = "ranked"
    /\ \E i \in 1..Len(selection_result.targets) :
           /\ FarFromRoads(selection_result.targets[i].pole.coord)
           /\ ~selection_result.targets[i].is_fast_track
    /\ \E i \in 1..Len(cost_results) : ~cost_results[i].is_fast_track

\* the conductors that reject path p
Offending(p) ==
    validate_path(data.lines, p.path_coords,
                  IF phase_code = PHASE_THREE THEN "HV" ELSE "LV").crossing_lines

\* C20: when the validator has rejected every path that was found, the
\* response is no_route and its reason is the validator's message for the
\* last path, which names the conductors that path crosses.
C20_ReasonNamesConductor ==
    pc = "returned" /\ road_graph.pole_node_ids # <<>>
    => LET found == find_paths(road_graph, selection_result.targets, MAX_PATHS)
       IN  found # <<>> /\ (\A i \in 1..Len(found) : Offending(found[i]) # <<>>)
           => /\ response.status = "no_route"
              /\ response.error_message = CrossingMessage(Offending(Last(found)))

---------------------------------------------------------------------------
(* Properties of the allocation.                                           *)

\* the allocations of reachable paths with at least two coordinates
AllocatedRoutes ==
    {i \in 1..Len(allocations) :
        /\ allocations[i].path_result.is_reachable
        /\ Len(allocations[i].path_result.path_coords) >= 2}

NewPolesOf(i) == allocations[i].new_poles

PathLengthOf(i) == LineLength(allocations[i].path_result.path_coords)

\* C6: every reachable path with at least two coordinates gets a new pole
\* at position 0, the consumer coordinate, wherever its junctions lie.
C6_PoleAtConsumer ==
    \A i \in AllocatedRoutes :
        \E k \in 1..Len(NewPolesOf(i)) : NewPolesOf(i)[k].pos = 0

\* C7: consecutive new poles are at most pole_interval (40 m) plus a small
\* tolerance (one metre here) apart along the path, junction merging
\* included.
C7_SpacingWithinInterval ==
    \A i \in AllocatedRoutes :
        \A k \in 1..(Len(NewPolesOf(i)) - 1) :
            NewPolesOf(i)[k + 1].pos - NewPolesOf(i)[k].pos <= POLE_INTERVAL + 1

\* C8 as stated: on every allocated route, of any length, Fast-Track or
\* not, every new pole (so the final one) lies at least 15 m along the path
\* from the terminating existing pole.
C8_BufferOnEveryRoute ==
    \A i \in AllocatedRoutes :
        \A k \in 1..Len(NewPolesOf(i)) :
            PathLengthOf(i) - NewPolesOf(i)[k].pos >= MIN_DISTANCE_TO_EXISTING_POLE

\* C8 amended: on every allocated route whose path is at least 15 m long
\* every new pole lies at least 15 m along the path from the terminating
\* existing pole; on a shorter path the only new pole is the mandatory one
\* at the consumer, position 0.
C8_BufferBeyondConsumerPole ==
    \A i \in AllocatedRoutes :
        IF PathLengthOf(i) >= MIN_DISTANCE_TO_EXISTING_POLE
        THEN \A k \in 1..Len(NewPolesOf(i)) :
                PathLengthOf(i) - NewPolesOf(i)[k].pos >= MIN_DISTANCE_TO_EXISTING_POLE
        ELSE Len(NewPolesOf(i)) = 1 /\ NewPolesOf(i)[1].pos = 0

\* a route of three or more poles whose last pole stands exactly at the
\* edge of the buffer, and a route shorter than the buffer
C8_Witness ==
    \E i \in AllocatedRoutes :
        /\ Len(NewPolesOf(i)) >= 3
        /\ ~allocations[i].path_result.is_fast_track
        /\ NewPolesOf(i)[Len(NewPolesOf(i))].pos
               = PathLengthOf(i) - MIN_DISTANCE_TO_EXISTING_POLE
        /\ NewPolesOf(i)[Len(NewPolesOf(i))].pos % POLE_INTERVAL # 0

\* C9: a junction-free path of geometric length D gets 1 new pole when
\* D <= 30 and 1 + ceil((D - 30) / 40) otherwise.
C9_CountFollowsFormula ==
    \A i \in AllocatedRoutes :
        (/\ ~allocations[i].path_result.is_fast_track
         /\ _find_junctions(allocations[i].path_result.path_coords) = <<>>)
        => Len(NewPolesOf(i)) = _calculate_pole_count(PathLengthOf(i))

\* C10: every interior vertex with a turn angle below 150 degrees that lies
\* outside the 15 m buffer gets a new pole at exactly its position, flagged
\* as a junction.
C10_PoleAtEveryJunction ==
    \A i \in AllocatedRoutes :
        LET junctions == _find_junctions(allocations[i].path_result.path_coords)
        IN  \A j \in 1..Len(junctions) :
                junctions[j].pos <= PathLengthOf(i) - MIN_DISTANCE_TO_EXISTING_POLE
                => \E k \in 1..Len(NewPolesOf(i)) :
                       /\ NewPolesOf(i)[k].pos = junctions[j].pos
                       /\ NewPolesOf(i)[k].is_junction

---------------------------------------------------------------------------
(* Properties of phase 8 and of the responses of run.                      *)

\* the start pole of result i and that of another of the first five results
\* were traced to one feeder id
SharesFeeder(i) ==
    LET top == TopResults(cost_results)
    IN  /\ eps.health = "up"
        /\ i <= Len(top)
        /\ Len(top) >= 2
        /\ eps.feeder[top[i].start_pole_id] \in {"F1", "F2"}
        /\ \E j \in 1..Len(top) :
               /\ j # i
               /\ eps.feeder[top[j].start_pole_id] = eps.feeder[top[i].start_pole_id]

\* C21: whatever the EPS server answers in phase 8, the request has no
\* response and no exception afterwards as before, the list of results
\* keeps its length, and every result keeps all its fields (rank and
\* cost_index among them) except that the remark of a result whose start
\* pole shares a feeder id with another may have the warning appended.
C21_AdvisoryOnlyAnnotates ==
    [][pc = "ranked" /\ pc' = "verified"
       => /\ response' = response
          /\ exception' = exception
          /\ Len(cost_results') = Len(cost_results)
          /\ \A i \in 1..Len(cost_results) :
                /\ cost_results'[i] =
                       [cost_results[i] EXCEPT !.remark = cost_results'[i].remark]
                /\ \/ cost_results'[i].remark = cost_results[i].remark
                   \/ /\ cost_results'[i].remark =
                             cost_results[i].remark \o " | duplicate feeder"
                      /\ SharesFeeder(i)']_vars

\* two results whose start poles share a feeder carry the warning, and the
\* request goes on to the conversion
C21_Witness ==
    /\ pc = "verified"
    /\ Len(cost_results) = 2
    /\ \A i \in 1..2 :
           /\ SharesFeeder(i)
           /\ cost_results[i].rank = i
           /\ cost_results[i].remark \in {" | duplicate feeder",
                                          "FastTrack | duplicate feeder"}

\* C22: a response with status failed or no_route carries a reason and a
\* processing time.
C22_ErrorResponseComplete ==
    response.status \in {"failed", "no_route"}
    => /\ response.error_message # ""
       /\ response.has_processing_time

\* the request has a candidate, a road, a pole on the road graph and a path
\* within reach that passes the validation, phases 3 to 5.5 being computed
\* as run computes them
Routable ==
    LET selected == select(data, consumer_coord, phase_code)
        g == build(data.roads, consumer_coord, selected.targets)
        found == find_paths(g, selected.targets, MAX_PATHS)
        new_line_type == IF phase_code = PHASE_THREE THEN "HV" ELSE "LV"
    IN  /\ selected.targets # <<>>
        /\ data.roads # <<>>
        /\ g.pole_node_ids # <<>>
        /\ \E i \in 1..Len(found) :
               validate_path(data.lines, found[i].path_coords, new_line_type).is_valid

\* C27: a request with a candidate, a road and a valid path within reach
\* neither is answered with FAILED nor has an exception leave a stage.
C27_RoutableRequestSucceeds ==
    (pc = "raised" \/ (pc = "returned" /\ response.status = "failed")) => ~Routable

---------------------------------------------------------------------------
(* Properties of the pole ids and of the failed fetches.                   *)

\* C29: the numbers the workers of one request gave to their new poles are
\* pairwise distinct.
C29_DistinctPoleIds ==
    \A i, j \in 1..Len(workers) :
        \A k \in 1..Len(workers[i].ids), l \in 1..Len(workers[j].ids) :
            workers[i].ids[k] = workers[j].ids[l] => i = j /\ k = l

\* fetch t ends in this step with an error or with a body that is not JSON
EndsFailed(t) ==
    /\ fetches[t].pc = "awaiting"
    /\ \/ fetches'[t].pc = "raised"
       \/ fetches'[t].pc = "returned" /\ fetches'[t].body = "not_json"

\* C30: a step in which a fetch ends in an error or in a body that is not
\* JSON leaves the cache as it was, and such a fetch never gets to
\* WFSCache.set: only a fetch whose body was parsed stores.
C30_FailedFetchStoresNothing ==
    [][/\ \A t \in Tasks : EndsFailed(t) => wfs_cache' = wfs_cache
       /\ \A t \in Tasks :
             fetches'[t].pc \in {"store", "in_set"}
             => fetches'[t].body \in {"features", "no_features"}]_vars

\* a fetch got a body that is not JSON, its key is not in the cache, and
\* the fetch of the other request with the same key is at the server again
C30_Witness ==
    \E t1, t2 \in Tasks :
        /\ t1 # t2
        /\ fetches[t1].key = fetches[t2].key
        /\ fetches[t1].pc = "returned" /\ fetches[t1].body = "not_json"
        /\ fetches[t1].key \notin DOMAIN wfs_cache
        /\ fetches[t2].pc = "awaiting"

---------------------------------------------------------------------------
(* Properties of the request validation.                                   *)

\* C23: a posted request whose coordinate is not "x,y" with two numbers, or
\* whose phase code is neither "1" nor "3", is answered with the validation
\* error 422, and neither run nor any fetch is started for it.
C23_InvalidRequestRejected ==
    \A r \in 1..MaxRequests :
        /\ http[r].pc # "idle"
        /\ \/ http[r].coord \in MalformedCoords
           \/ http[r].phase_code \notin {PHASE_SINGLE, PHASE_THREE}
        => /\ http[r].pc = "rejected"
           /\ http[r].status_code = 422
           /\ requests[r].pc = "idle"
           /\ \A t \in TasksOf(r) : fetches[t].pc = "idle"

\* one request was rejected for its coordinate, while the other one, well
\* formed, has its fetches at the server
C23_Witness ==
    /\ http[1].pc = "rejected"
    /\ http[1].coord \in MalformedCoords
    /\ http[1].phase_code = PHASE_SINGLE
    /\ http[2].pc = "running"
    /\ \A t \in TasksOf(1) : fetches[t].pc = "idle"
    /\ \E t \in TasksOf(2) : fetches[t].pc = "awaiting"

---------------------------------------------------------------------------
(* Properties of the cost index.                                           *)

\* C24: cost_index is the number of new poles times W_pole, plus the
\* distance times W_dist rounded to the nearest integer, plus the number
\* of turns times W_turn: what is left of cost_index without the pole and
\* turn terms is at most one half away from distance * W_dist.
C24_DistanceTermRounded ==
    pc = "ranked"
    => \A i \in 1..Len(cost_results) :
          LET r == cost_results[i]
              distance_term == r.cost_index - r.new_poles_count * SCORE_WEIGHT_POLE
                               - r.turn_count * SCORE_WEIGHT_TURN
          IN  2 * Abs(distance_term * unit - r.total_distance * SCORE_WEIGHT_DISTANCE)
              <= unit

---------------------------------------------------------------------------
(* Properties of the seed scenario.                                        *)

\* C25: the ranked results of the first seed scenario are one route with
\* one new pole, 30 m of wire, a remark that names Fast-Track, and the
\* cost_index 30.
C25_SeedFastTrack ==
    pc = "ranked"
    => /\ Len(cost_results) = 1
       /\ cost_results[1].new_poles_count = 1
       /\ allocations[1].new_poles = FastTrackPoles
       /\ cost_results[1].total_distance = 30
       /\ cost_results[1].remark = "FastTrack"
       /\ cost_results[1].cost_index = 30

---------------------------------------------------------------------------
(* Properties of the hand-off from the fetch to the preprocessor.          *)

\* C28: after process, every fetched conductor that is neither removed
\* nor without a LineString is a Line of the processed data: the
\* high-voltage spans as HV lines, the low-voltage lines as LV lines.
C28_ConductorsHandedOn ==
    pc = "select"
    => /\ \A i \in 1..Len(raw_data.lines) :
             LET f == raw_data.lines[i]
             IN  ~Skipped(f) /\ f.REMOVE_YN # "Y"
                 => \E j \in 1..Len(data.lines) :
                        data.lines[j].id = f.GID /\ data.lines[j].line_type = "HV"
       /\ \A i \in 1..Len(raw_data.transformers) :
             LET f == raw_data.transformers[i]
             IN  ~Skipped(f)
                 => \E j \in 1..Len(data.lines) :
                        data.lines[j].id = f.GID /\ data.lines[j].line_type = "LV"

---------------------------------------------------------------------------
(* Properties of the edge weights.                                         *)

\* C26: every edge of the road graph between two nodes has a weight that
\* is at least the straight distance between the coordinates of the two
\* nodes.
C26_WeightAtLeastDistance ==
    pc = "graph"
    => \A e \in road_graph.edges :
          \A u, v \in e.ends :
              LET a == NodeCoord(road_graph, u)
                  b == NodeCoord(road_graph, v)
              IN  \/ e.weight > calculate_distance(a, b)
                  \/ e.weight = calculate_distance(a, b) /\ ExactDistance(a, b)

====
